---- MODULE Spec2Model ----
(***************************************************************************)
(* Model of the AcerSense daemon (src/Daemon/AcerSense-Daemon.py and       *)
(* src/Daemon/PowerSourceDetection.py): the profile reconciler             *)
(* (AcerSenseManager), the power monitor (PowerSourceDetector) and the     *)
(* broadcast server (DaemonServer).                                        *)
(*                                                                         *)
(* Strings are the program's strings.  A file of the virtual file system   *)
(* is modelled by its stripped content; "absent" stands for a file that    *)
(* does not exist.  Booleans carried in JSON payloads are the strings      *)
(* "true" / "false".                                                       *)
(***************************************************************************)
EXTENDS Integers, Sequences, FiniteSets, TLC

VARIABLES
    \* ---- hardware / virtual files ----
    platform_profile,          \* content of /sys/firmware/acpi/platform_profile
    platform_profile_choices,  \* content of platform_profile_choices, split()
    online,                    \* the four candidate "online" files, in list order
    \* ---- AcerSenseManager fields ----
    available_features,
    last_known_profile,
    default_ac_profile,
    default_bat_profile,
    opt,                       \* optimization settings last written
    visuals,                   \* profile of the last visuals request ("" = none)
    fan_speed,                 \* content of the fan_speed control file
    \* ---- observation of the calls made on the manager ----
    last,                      \* record of the most recent operation
    prev,                      \* record of the operation before it
    \* ---- threads calling into the manager (event loop, power monitor) ----
    pc,                        \* where each thread is in its call
    loc,                       \* the locals of each thread's call
    emitted,                   \* the events handed to the callback, in order
    start,                     \* the state in which the first call began
    \* ---- DaemonServer and its asyncio event loop ----
    clients,                   \* DaemonServer.clients
    ready,                     \* the loop's queue of ready callbacks, in order
    ntodo,                     \* callbacks left to run in this loop iteration
    current_task,              \* the broadcast task inside its for loop, or 0
    tasks,                     \* the broadcast_event tasks created so far
    conn,                      \* per client: socket, transport, reader, handler
    power_changes,             \* power changes the monitor has handled
    \* ---- process starts and driver recovery (AcerSenseManager.__init__) ----
    restart_counter_file,      \* RESTART_COUNTER_FILE: whether it exists, its text
    boot,                      \* what the most recent process start did
    failures,                  \* consecutive starts that detected no laptop type
    faults,                    \* a counter file operation failed since the last reset
    \* ---- PowerSourceDetector ----
    running,                   \* PowerSourceDetector.running
    current_source,            \* PowerSourceDetector.current_source
    monitor_thread,            \* where the monitor thread is
    observers,                 \* monitor threads created so far
    start_calls,               \* calls of start_monitoring made so far
    uevent,                    \* the datagram waiting in the netlink socket
    seen,                      \* the most recent observation of the power source
    transitions,               \* observations that differed from the one before
    calls,                     \* calls of handle_power_change made by the monitor
    env_steps,                 \* events of the environment so far
    \* ---- the process: the server's flag, its socket, the PID file, the ----
    \* ---- files whose removal has failed, the monitor's netlink socket  ----
    daemon,
    \* ---- the stored configuration (CONFIG_PATH) and the NOS mode ----
    config,                    \* DefaultAcProfile and DefaultBatProfile as stored
    nos                        \* nos_active, previous_profile_for_nos, and the
                               \* hardware profile before the last activation

mvars == <<platform_profile, platform_profile_choices, online, available_features,
           last_known_profile, default_ac_profile, default_bat_profile, opt, visuals,
           fan_speed>>

hvars == <<last, prev>>

cvars == <<pc, loc, emitted, start>>

svars == <<clients, ready, ntodo, current_task, tasks, conn, power_changes>>

rvars == <<restart_counter_file, boot, failures, faults>>

\* What the manager operations, the threads and the server never touch.
pvars == <<running, current_source, monitor_thread, observers, start_calls, uevent,
           seen, transitions, calls, env_steps>>

uvars == <<config, nos>>

lvars == <<daemon, uvars>>

evars == <<rvars, pvars, lvars>>

vars == <<mvars, hvars, cvars, svars, evars>>

Range(s) == {s[i] : i \in DOMAIN s}

-----------------------------------------------------------------------------
(* Values *)

KnownProfiles == {"quiet", "balanced", "balanced-performance", "performance", "low-power"}

\* What a caller may pass as a profile: the known names and a name the
\* fallback table does not know.
Requests == KnownProfiles \cup {"turbo"}

\* Hardware choice lists the model starts from (read from hardware at runtime).
ChoiceLists ==
    { <<"quiet", "balanced", "performance">>,
      <<"low-power", "balanced">>,
      <<"quiet", "balanced">> }

NumCandidates == 4

\* Bounds of the server's environment.
MaxClients == 2

MaxRequests == 1

MaxIncidents == 1

FileStates == {"absent", "0", "1"}

\* Assignments of the candidate "online" files the model starts from / moves to.
OnlineConfigs ==
    { <<"1", "absent", "absent", "absent">>,
      <<"0", "absent", "absent", "absent">>,
      <<"absent", "absent", "absent", "absent">> }

FanEvent(speeds) == [type |-> "fan_speed_changed", data |-> speeds]

PowerEvent(is_ac) == [type |-> "power_state_changed",
                      data |-> IF is_ac THEN "true" ELSE "false"]

ProfileEvent(profile) == [type |-> "thermal_profile_changed", data |-> profile]

-----------------------------------------------------------------------------
(* AcerSenseManager: pure helpers *)

\* _is_ac_online: True iff some existing candidate reads "1".
_is_ac_online(on) == \E i \in 1..NumCandidates : on[i] = "1"

\* get_thermal_profile: "" when the feature is not available.
get_thermal_profile(af, pp) == IF "thermal_profile" \in af THEN pp ELSE ""

\* get_thermal_profile_choices: [] when the feature is not available.
get_thermal_profile_choices(af, ch) == IF "thermal_profile" \in af THEN ch ELSE <<>>

\* MapProfile with the two fallbacks of balanced-performance tried in the
\* other order.
MapProfile_balanced_first(available_profiles, profile) ==
    IF profile \in Range(available_profiles) THEN profile
    ELSE IF profile = "balanced-performance"
         THEN IF "balanced" \in Range(available_profiles) THEN "balanced"
              ELSE IF "performance" \in Range(available_profiles) THEN "performance"
              ELSE profile
    ELSE IF profile = "quiet"
         THEN IF "low-power" \in Range(available_profiles) THEN "low-power"
              ELSE profile
    ELSE profile

\* The fallback mapping of set_thermal_profile: the profile after the mapping
\* step (it may still be outside the choices).
MapProfile(available_profiles, profile) ==
    IF profile \in Range(available_profiles) THEN profile
    ELSE IF profile = "balanced-performance"
         THEN IF "performance" \in Range(available_profiles) THEN "performance"
              ELSE IF "balanced" \in Range(available_profiles) THEN "balanced"
              ELSE profile
    ELSE IF profile = "quiet"
         THEN IF "low-power" \in Range(available_profiles) THEN "low-power"
              ELSE profile
    ELSE profile

\* The settings _apply_profile_optimizations derives from (is_ac, profile).
OptimizationSettings(is_ac, profile) ==
    [ epp |-> IF is_ac
              THEN IF profile = "quiet" THEN "balance_power"
                   ELSE IF profile = "balanced" THEN "balance_performance"
                   ELSE IF profile \in {"performance", "balanced-performance"}
                        THEN "performance"
                   ELSE "balance_performance"
              ELSE IF profile = "balanced" THEN "balance_power"
                   ELSE IF profile = "low-power" THEN "power"
                   ELSE "balance_performance",
      wifi_power |-> IF is_ac THEN "off" ELSE "on",
      turbo |-> IF (~is_ac) /\ profile = "low-power" THEN "1" ELSE "0",
      audio_power |-> IF (~is_ac) \/ profile = "quiet" THEN "1" ELSE "0",
      nmi_watchdog |-> IF is_ac THEN "1" ELSE "0",
      vm_writeback |-> IF is_ac THEN "1500" ELSE "6000",
      aspm_policy |-> IF is_ac THEN "default" ELSE "powersave",
      sata_policy |-> IF is_ac THEN "max_performance" ELSE "med_power_with_dipm",
      usb_autosuspend |-> IF is_ac THEN "-1" ELSE "2" ]

\* _write_file without the skip of a redundant write.
_write_file_always(cur, value, wok) ==
    IF wok THEN [success |-> TRUE, content |-> value, wrote |-> TRUE]
    ELSE [success |-> FALSE, content |-> cur, wrote |-> FALSE]

\* _write_file(path, value) on a file holding cur: the write is skipped when the
\* file already holds the value; wok says whether an attempted write succeeds.
_write_file(cur, value, wok) ==
    IF cur = value THEN [success |-> TRUE, content |-> cur, wrote |-> FALSE]
    ELSE IF wok THEN [success |-> TRUE, content |-> value, wrote |-> TRUE]
    ELSE [success |-> FALSE, content |-> cur, wrote |-> FALSE]

-----------------------------------------------------------------------------
(* AcerSenseManager: operations, as functions of a state record.            *)
(* A state record s holds the hardware files and the manager fields         *)
(* (pp, ch, on, fan; af, lkp, dac, dbat, opt, vis) and what the running     *)
(* call did so far: ev (the _notify_event calls, in order), wr (writes      *)
(* performed on platform_profile), wf (writes that failed), na              *)
(* (optimization applications), nv (visuals requests), oe (the number of    *)
(* events of the call emitted before its last optimization application)     *)
(* and ret (the value returned).                                            *)

Mgr ==
    [ pp |-> platform_profile, ch |-> platform_profile_choices, on |-> online,
      fan |-> fan_speed, af |-> available_features, lkp |-> last_known_profile,
      dac |-> default_ac_profile, dbat |-> default_bat_profile,
      opt |-> opt, vis |-> visuals,
      ev |-> <<>>, wr |-> 0, wf |-> 0, na |-> 0, nv |-> 0, oe |-> 0, ret |-> TRUE ]

\* _notify_event: hands the event to the registered callback.
_notify_event(s, e) == [s EXCEPT !.ev = Append(@, e)]

\* _update_hyprland_visuals: the request to the visuals collaborator.
_update_hyprland_visuals(s, profile) == [s EXCEPT !.vis = profile, !.nv = @ + 1]

\* "1. Detect Power Source" of _apply_profile_optimizations: is_ac is set, and
\* the loop left, at a candidate that exists and reads "1".
DetectPowerSource(on) == \E i \in 1..NumCandidates : on[i] = "1"

\* _apply_profile_optimizations: derives the power state itself and writes the
\* settings; it cannot fail observably.
_apply_profile_optimizations(s, profile) ==
    [s EXCEPT !.opt = OptimizationSettings(DetectPowerSource(s.on), profile), !.na = @ + 1,
              !.oe = Len(s.ev)]

\* get_fan_speed: the control file's content, ("0","0") without the feature.
get_fan_speed(s) == IF "fan_speed" \in s.af THEN s.fan ELSE "0,0"

\* The side effects of a successful or forced apply (set_thermal_profile).
\* The side effects with the event broadcast before the optimizations.
ApplySideEffects_notify_first(s, profile) ==
    _apply_profile_optimizations(
        _notify_event(
            _update_hyprland_visuals([s EXCEPT !.lkp = profile], profile),
            ProfileEvent(profile)),
        profile)

ApplySideEffects(s, profile) ==
    _notify_event(
        _apply_profile_optimizations(
            _update_hyprland_visuals([s EXCEPT !.lkp = profile], profile),
            profile),
        ProfileEvent(profile))

\* set_thermal_profile applying the side effects on write success only.
set_thermal_profile_noforce(s, profile, force, wok) ==
    IF "thermal_profile" \notin s.af THEN [s EXCEPT !.ret = FALSE]
    ELSE LET available_profiles == get_thermal_profile_choices(s.af, s.ch)
             mapped == MapProfile(available_profiles, profile)
         IN  IF mapped \notin Range(available_profiles) THEN [s EXCEPT !.ret = FALSE]
             ELSE LET w == _write_file(s.pp, mapped, wok)
                      s1 == [s EXCEPT !.pp = w.content,
                                      !.wr = IF w.wrote THEN @ + 1 ELSE @,
                                      !.wf = IF w.success THEN @ ELSE @ + 1,
                                      !.ret = w.success]
                  IN  IF w.success THEN ApplySideEffects(s1, mapped)
                      ELSE s1

\* set_thermal_profile without the final check of the mapped profile when
\* the call is forced.
set_thermal_profile_nofinalcheck(s, profile, force, wok) ==
    IF "thermal_profile" \notin s.af THEN [s EXCEPT !.ret = FALSE]
    ELSE LET available_profiles == get_thermal_profile_choices(s.af, s.ch)
             mapped == MapProfile(available_profiles, profile)
         IN  IF mapped \notin Range(available_profiles) /\ ~force
             THEN [s EXCEPT !.ret = FALSE]
             ELSE LET w == _write_file(s.pp, mapped, wok)
                      s1 == [s EXCEPT !.pp = w.content,
                                      !.wr = IF w.wrote THEN @ + 1 ELSE @,
                                      !.wf = IF w.success THEN @ ELSE @ + 1,
                                      !.ret = w.success]
                  IN  IF w.success \/ force THEN ApplySideEffects(s1, mapped)
                      ELSE s1

set_thermal_profile(s, profile, force, wok) ==
    IF "thermal_profile" \notin s.af THEN [s EXCEPT !.ret = FALSE]
    ELSE LET available_profiles == get_thermal_profile_choices(s.af, s.ch)
             mapped == MapProfile(available_profiles, profile)
         IN  IF mapped \notin Range(available_profiles) THEN [s EXCEPT !.ret = FALSE]
             ELSE LET w == _write_file(s.pp, mapped, wok)
                      s1 == [s EXCEPT !.pp = w.content,
                                      !.wr = IF w.wrote THEN @ + 1 ELSE @,
                                      !.wf = IF w.success THEN @ ELSE @ + 1,
                                      !.ret = w.success]
                  IN  IF w.success \/ force THEN ApplySideEffects(s1, mapped)
                      ELSE s1

\* handle_power_change without the test that the hardware offers the default.
handle_power_change_unchecked(s, is_plugged_in, wok) ==
    LET s1 == _notify_event(s, PowerEvent(is_plugged_in))
        target_profile == IF is_plugged_in THEN s1.dac ELSE s1.dbat
        s2 == _update_hyprland_visuals(s1, target_profile)
    IN  set_thermal_profile([s2 EXCEPT !.lkp = target_profile],
                            target_profile, FALSE, wok)

\* handle_power_change handing a default the hardware does not offer to
\* set_thermal_profile and its fallback table.
handle_power_change_fallback(s, is_plugged_in, wok) ==
    LET s1 == _notify_event(s, PowerEvent(is_plugged_in))
        profile_list == get_thermal_profile_choices(s1.af, s1.ch)
        target_profile == IF is_plugged_in THEN s1.dac ELSE s1.dbat
        s2 == _update_hyprland_visuals(s1, target_profile)
    IN  IF target_profile \in Range(profile_list)
        THEN set_thermal_profile([s2 EXCEPT !.lkp = target_profile],
                                 target_profile, FALSE, wok)
        ELSE set_thermal_profile(s2, target_profile, FALSE, wok)

handle_power_change(s, is_plugged_in, wok) ==
    LET s1 == _notify_event(s, PowerEvent(is_plugged_in))
        profile_list == get_thermal_profile_choices(s1.af, s1.ch)
        target_profile == IF is_plugged_in THEN s1.dac ELSE s1.dbat
        s2 == _update_hyprland_visuals(s1, target_profile)
    IN  IF target_profile \in Range(profile_list)
        THEN set_thermal_profile([s2 EXCEPT !.lkp = target_profile],
                                 target_profile, FALSE, wok)
        ELSE s2

\* handle_hardware_event without the comparison with last_known_profile.
handle_hardware_event_always(s) ==
    LET current_profile == get_thermal_profile(s.af, s.pp)
    IN  IF current_profile # ""
        THEN LET s1 == _notify_event(
                          _apply_profile_optimizations(
                              _update_hyprland_visuals(
                                  [s EXCEPT !.lkp = current_profile], current_profile),
                              current_profile),
                          ProfileEvent(current_profile))
             IN  IF "fan_speed" \in s1.af
                 THEN _notify_event(s1, FanEvent(get_fan_speed(s1)))
                 ELSE s1
        ELSE s

handle_hardware_event(s) ==
    LET current_profile == get_thermal_profile(s.af, s.pp)
    IN  IF current_profile # "" /\ current_profile # s.lkp
        THEN LET s1 == _notify_event(
                          _apply_profile_optimizations(
                              _update_hyprland_visuals(
                                  [s EXCEPT !.lkp = current_profile], current_profile),
                              current_profile),
                          ProfileEvent(current_profile))
             IN  IF "fan_speed" \in s1.af
                 THEN _notify_event(s1, FanEvent(get_fan_speed(s1)))
                 ELSE s1
        ELSE s

sync_full_state(s, wok) ==
    LET is_ac == _is_ac_online(s.on)
        hw == get_thermal_profile(s.af, s.pp)
        current_profile == IF hw = "" THEN (IF is_ac THEN s.dac ELSE s.dbat) ELSE hw
    IN  _notify_event(set_thermal_profile(s, current_profile, TRUE, wok),
                      PowerEvent(is_ac))

\* The first existing candidate file, 0 when none exists (the next(...) of
\* _apply_initial_profile).
FirstExisting(on) ==
    IF \E i \in 1..NumCandidates : on[i] # "absent"
    THEN CHOOSE i \in 1..NumCandidates :
            on[i] # "absent" /\ \A j \in 1..(i - 1) : on[j] = "absent"
    ELSE 0

\* is_ac of _apply_initial_profile: what the first existing candidate reads.
InitialIsAc(on) ==
    IF FirstExisting(on) = 0 THEN FALSE ELSE on[FirstExisting(on)] = "1"

\* _apply_initial_profile: the default profile of the power source found at
\* start is set when the hardware offers it.
_apply_initial_profile(s, wok) ==
    LET is_ac == InitialIsAc(s.on)
        profile_list == get_thermal_profile_choices(s.af, s.ch)
        target_profile == IF is_ac THEN s.dac ELSE s.dbat
    IN  IF target_profile \in Range(profile_list)
        THEN set_thermal_profile(s, target_profile, FALSE, wok)
        ELSE s

-----------------------------------------------------------------------------
(* State machine of the reconciler: one action per public operation of the  *)
(* manager, each a whole call, plus the environment (hotkey, power source). *)

\* Settings files before the daemon first writes them.
UnsetOpt ==
    [ epp |-> "unset", wifi_power |-> "unset", turbo |-> "unset",
      audio_power |-> "unset", nmi_watchdog |-> "unset", vm_writeback |-> "unset",
      aspm_policy |-> "unset", sata_policy |-> "unset", usb_autosuspend |-> "unset" ]

\* Configured default profiles (DefaultAcProfile, DefaultBatProfile): the
\* built-in defaults, and a configuration naming other profiles.
DefaultPairs == { <<"balanced", "low-power">>, <<"balanced-performance", "quiet">> }

FeatureSets == { {"thermal_profile", "fan_speed"}, {} }

\* The record kept of a call: its arguments and what it did (the value
\* returned, the writes performed on platform_profile and those that failed,
\* the events handed to the callback, the optimization applications and
\* visuals requests, and whether the hardware profile and last_known_profile
\* changed).
CallRecord(op, profile, force, s0, s) ==
    [ op |-> op, profile |-> profile, force |-> force,
      ret |-> s.ret, wr |-> s.wr, wf |-> s.wf, ev |-> s.ev, na |-> s.na, nv |-> s.nv,
      oe |-> s.oe,
      pp_changed |-> s.pp # s0.pp, lkp_changed |-> s.lkp # s0.lkp ]

NoCall ==
    [ op |-> "none", profile |-> "", force |-> FALSE,
      ret |-> TRUE, wr |-> 0, wf |-> 0, ev |-> <<>>, na |-> 0, nv |-> 0, oe |-> 0,
      pp_changed |-> FALSE, lkp_changed |-> FALSE ]

\* The thermal_profile_changed events among the events of a call.
ProfileEvents(ev) == SelectSeq(ev, LAMBDA e : e.type = "thermal_profile_changed")

\* What is kept of the call before the last one: for a set_thermal_profile
\* call its arguments, result, writes and number of profile events.
Summary(rec) ==
    IF rec.op = "set_thermal_profile"
    THEN [ op |-> rec.op, profile |-> rec.profile, force |-> rec.force,
           ret |-> rec.ret, wr |-> rec.wr, nev |-> Len(ProfileEvents(rec.ev)) ]
    ELSE [ op |-> "other", profile |-> "", force |-> FALSE,
           ret |-> TRUE, wr |-> 0, nev |-> 0 ]

\* The variables take the values of state record s.
Commit(s) ==
    /\ platform_profile' = s.pp
    /\ platform_profile_choices' = s.ch
    /\ online' = s.on
    /\ fan_speed' = s.fan
    /\ available_features' = s.af
    /\ last_known_profile' = s.lkp
    /\ default_ac_profile' = s.dac
    /\ default_bat_profile' = s.dbat
    /\ opt' = s.opt
    /\ visuals' = s.vis

Record(rec) == last' = rec /\ prev' = Summary(last) /\ UNCHANGED <<cvars, svars, evars>>

\* AcerSenseManager.__init__ on some hardware: last_known_profile is read from
\* hardware, then the initial default profile is applied.
InitMgrOver(Configs) ==
    \E ch \in ChoiceLists, on \in Configs, af \in FeatureSets,
       d \in DefaultPairs, wok \in BOOLEAN :
      \E pp \in Range(ch) :
        LET s0 == [ pp |-> pp, ch |-> ch, on |-> on, fan |-> "0,0", af |-> af,
                    lkp |-> get_thermal_profile(af, pp),
                    dac |-> d[1], dbat |-> d[2], opt |-> UnsetOpt, vis |-> "",
                    ev |-> <<>>, wr |-> 0, wf |-> 0, na |-> 0, nv |-> 0, oe |-> 0, ret |-> TRUE ]
            s == _apply_initial_profile(s0, wok)
        IN  /\ platform_profile = s.pp
            /\ platform_profile_choices = s.ch
            /\ online = s.on
            /\ fan_speed = s.fan
            /\ available_features = s.af
            /\ last_known_profile = s.lkp
            /\ default_ac_profile = s.dac
            /\ default_bat_profile = s.dbat
            /\ opt = s.opt
            /\ visuals = s.vis

InitMgr == InitMgrOver(OnlineConfigs)

InitHist == last = NoCall /\ prev = Summary(NoCall)

Threads == {"loop", "monitor"}

NoLocals ==
    [ op |-> "none", arg |-> "", force |-> FALSE, wok |-> TRUE,
      profile |-> "", success |-> FALSE ]

\* No call has begun.
NotStarted == [ op |-> "none" ]

InitThreads ==
    /\ pc = [t \in Threads |-> "idle"]
    /\ loc = [t \in Threads |-> NoLocals]
    /\ emitted = <<>>
    /\ start = NotStarted

ClientIds == 1 .. MaxClients

NoEvent == [type |-> "", data |-> ""]

NoConnection ==
    [ st |-> "none", peer |-> "alive", sent |-> <<>>, inbuf |-> <<>>, rdbuf |-> <<>>,
      eof |-> FALSE, reg |-> FALSE, hpc |-> "none", stalled |-> FALSE,
      stalls |-> 0, paused |-> FALSE, out |-> <<>> ]

\* A connection that is closed and whose handler has returned leaves nothing
\* behind but what its client did.
Settled(r) ==
    IF r.st = "closed" /\ r.hpc = "done"
    THEN [NoConnection EXCEPT !.st = "closed", !.peer = r.peer, !.hpc = "done",
                              !.sent = r.sent, !.stalls = r.stalls]
    ELSE r

\* DaemonServer.__init__ and start(): no client, an idle loop.
InitServer ==
    /\ clients = {}
    /\ ready = <<>>
    /\ ntodo = 0
    /\ current_task = 0
    /\ tasks = <<>>
    /\ conn = [c \in ClientIds |-> NoConnection]
    /\ power_changes = 0

\* The counter file does not exist.
AbsentFile == [exists |-> FALSE, text |-> <<>>]

\* No process start has happened.
NoBoot == [detected |-> TRUE, attempts |-> 0, steps |-> <<>>, outcome |-> "none"]

\* Before the first process start: a fresh /tmp without the counter file.
InitRecovery ==
    /\ restart_counter_file = AbsentFile
    /\ boot = NoBoot
    /\ failures = 0
    /\ faults = FALSE

\* AcerSenseDaemon.run() and DaemonServer.start(): the PID file is written,
\* the server listens on its socket and serves.
InitDaemon ==
    daemon = [ phase |-> "serving", running |-> TRUE, listening |-> TRUE,
               socket_file |-> TRUE, pid_file |-> TRUE, failed |-> {},
               netlink |-> "none" ]

\* PowerSourceDetector.__init__: not running, no observation, no thread.
\* _load_defaults has read the stored defaults; NOS mode is off and no
\* profile was saved for it.
InitUser ==
    /\ config = [ac |-> default_ac_profile, bat |-> default_bat_profile]
    /\ nos = [active |-> FALSE, previous |-> "", before |-> ""]

InitMonitor ==
    /\ running = FALSE
    /\ current_source = "None"
    /\ monitor_thread = "none"
    /\ observers = 0
    /\ start_calls = 0
    /\ uevent = "none"
    /\ seen = "None"
    /\ transitions = 0
    /\ calls = 0
    /\ env_steps = 0

Init ==
    /\ InitMgr /\ InitHist /\ InitThreads /\ InitServer /\ InitRecovery /\ InitMonitor
    /\ InitDaemon /\ InitUser

\* A call set_thermal_profile(profile, force).
SetThermalProfile ==
    \E profile \in Requests, force \in BOOLEAN, wok \in BOOLEAN :
        LET s == set_thermal_profile(Mgr, profile, force, wok)
        IN  Commit(s) /\ Record(CallRecord("set_thermal_profile", profile, force, Mgr, s))

\* A call handle_power_change(is_plugged_in).
HandlePowerChange ==
    \E is_plugged_in \in BOOLEAN, wok \in BOOLEAN :
        LET s == handle_power_change(Mgr, is_plugged_in, wok)
        IN  Commit(s) /\ Record(CallRecord("handle_power_change",
                                  IF is_plugged_in THEN "true" ELSE "false", FALSE, Mgr, s))

\* A call handle_hardware_event().
HandleHardwareEvent ==
    LET s == handle_hardware_event(Mgr)
    IN  Commit(s) /\ Record(CallRecord("handle_hardware_event", "", FALSE, Mgr, s))

\* A call sync_full_state().
SyncFullState ==
    \E wok \in BOOLEAN :
        LET s == sync_full_state(Mgr, wok)
        IN  Commit(s) /\ Record(CallRecord("sync_full_state", "", TRUE, Mgr, s))

\* The physical profile key: the hardware moves to another of its choices.
Hotkey ==
    \E p \in Range(platform_profile_choices) :
        /\ p # platform_profile
        /\ LET s == [Mgr EXCEPT !.pp = p]
           IN  Commit(s) /\ Record(CallRecord("hotkey", p, FALSE, Mgr, s))

\* The power source changes: the candidate files take another assignment.
PowerSwitch ==
    \E on \in OnlineConfigs :
        /\ on # online
        /\ LET s == [Mgr EXCEPT !.on = on]
           IN  Commit(s) /\ Record(CallRecord("power_switch", "", FALSE, Mgr, s))

Next ==
    \/ SetThermalProfile
    \/ HandlePowerChange
    \/ HandleHardwareEvent
    \/ SyncFullState
    \/ Hotkey
    \/ PowerSwitch

Spec == Init /\ [][Next]_vars

-----------------------------------------------------------------------------
(* The same operations statement by statement, on two threads.  The power   *)
(* monitor's thread calls handle_power_change (PowerSourceDetector          *)
(* .check_power_source); the server's event-loop thread calls               *)
(* set_thermal_profile (process_command, sync_full_state).  The manager     *)
(* takes no lock: a thread switch can fall between any two statements.      *)
(* Each thread makes one call; start is the state in which the first began. *)

\* _is_ac_connected: the first existing candidate decides (no power supply
\* directory other than the four candidates exists).
_is_ac_connected(on) ==
    IF FirstExisting(on) = 0 THEN FALSE ELSE on[FirstExisting(on)] = "1"

Idle == \A t \in Threads : pc[t] = "idle"

Goto(t, label) == pc' = [pc EXCEPT ![t] = label]

\* The event loop enters set_thermal_profile(profile, force).
LoopCall ==
    \E profile \in Requests, force \in BOOLEAN, wok \in BOOLEAN :
        /\ pc["loop"] = "idle"
        /\ loc' = [loc EXCEPT !["loop"] =
                     [ op |-> "set_thermal_profile", arg |-> profile, force |-> force,
                       wok |-> wok, profile |-> profile, success |-> FALSE ]]
        /\ Goto("loop", "validate")
        /\ start' = IF Idle THEN Mgr ELSE start
        /\ UNCHANGED <<mvars, hvars, svars, evars, emitted>>

\* The monitor enters handle_power_change(is_plugged_in) with the power state
\* check_power_source has just read; its first statement emits the event.
MonitorCall ==
    \E wok \in BOOLEAN :
        /\ pc["monitor"] = "idle"
        /\ loc' = [loc EXCEPT !["monitor"] =
                     [ op |-> "handle_power_change",
                       arg |-> IF _is_ac_connected(online) THEN "true" ELSE "false",
                       force |-> FALSE, wok |-> wok, profile |-> "", success |-> FALSE ]]
        /\ emitted' = Append(emitted, PowerEvent(_is_ac_connected(online)))
        /\ Goto("monitor", "hpc_visuals")
        /\ start' = IF Idle THEN Mgr ELSE start
        /\ UNCHANGED <<mvars, hvars, svars, evars>>

\* handle_power_change: the default profile is looked up and the visuals are
\* requested for it.
HpcVisuals(t) ==
    /\ pc[t] = "hpc_visuals"
    /\ LET target_profile == IF loc[t].arg = "true" THEN default_ac_profile
                             ELSE default_bat_profile
       IN  /\ loc' = [loc EXCEPT ![t].profile = target_profile]
           /\ visuals' = target_profile
           /\ IF target_profile \in
                   Range(get_thermal_profile_choices(available_features,
                                                      platform_profile_choices))
              THEN Goto(t, "hpc_intent")
              ELSE Goto(t, "done")
    /\ UNCHANGED <<platform_profile, platform_profile_choices, online, available_features,
                   last_known_profile, default_ac_profile, default_bat_profile, opt,
                   fan_speed, hvars, svars, evars, emitted, start>>

\* handle_power_change: last_known_profile = target_profile, then the call of
\* set_thermal_profile(target_profile).
HpcIntent(t) ==
    /\ pc[t] = "hpc_intent"
    /\ last_known_profile' = loc[t].profile
    /\ Goto(t, "validate")
    /\ UNCHANGED <<platform_profile, platform_profile_choices, online, available_features,
                   default_ac_profile, default_bat_profile, opt, visuals, fan_speed,
                   hvars, svars, evars, loc, emitted, start>>

\* set_thermal_profile: the feature test, the choices, the fallback mapping
\* and the final check.
StpValidate(t) ==
    /\ pc[t] = "validate"
    /\ LET available_profiles ==
               get_thermal_profile_choices(available_features, platform_profile_choices)
           mapped == MapProfile(available_profiles, loc[t].profile)
       IN  IF "thermal_profile" \notin available_features
              \/ mapped \notin Range(available_profiles)
           THEN Goto(t, "done") /\ loc' = [loc EXCEPT ![t].success = FALSE]
           ELSE Goto(t, "write_read") /\ loc' = [loc EXCEPT ![t].profile = mapped]
    /\ UNCHANGED <<mvars, hvars, svars, evars, emitted, start>>

\* _write_file: the file is read and compared with the value.
StpWriteRead(t) ==
    /\ pc[t] = "write_read"
    /\ IF platform_profile = loc[t].profile
       THEN Goto(t, "side_effects") /\ loc' = [loc EXCEPT ![t].success = TRUE]
       ELSE Goto(t, "write_write") /\ UNCHANGED loc
    /\ UNCHANGED <<mvars, hvars, svars, evars, emitted, start>>

\* _write_file: the file is written.
StpWriteWrite(t) ==
    /\ pc[t] = "write_write"
    /\ platform_profile' = IF loc[t].wok THEN loc[t].profile ELSE platform_profile
    /\ loc' = [loc EXCEPT ![t].success = loc[t].wok]
    /\ Goto(t, "side_effects")
    /\ UNCHANGED <<platform_profile_choices, online, available_features,
                   last_known_profile, default_ac_profile, default_bat_profile, opt,
                   visuals, fan_speed, hvars, svars, evars, emitted, start>>

\* set_thermal_profile: if success or force: last_known_profile = profile.
StpLastKnown(t) ==
    /\ pc[t] = "side_effects"
    /\ IF loc[t].success \/ loc[t].force
       THEN last_known_profile' = loc[t].profile /\ Goto(t, "visuals")
       ELSE UNCHANGED last_known_profile /\ Goto(t, "done")
    /\ UNCHANGED <<platform_profile, platform_profile_choices, online, available_features,
                   default_ac_profile, default_bat_profile, opt, visuals, fan_speed,
                   hvars, svars, evars, loc, emitted, start>>

\* set_thermal_profile: _update_hyprland_visuals(profile).
StpVisuals(t) ==
    /\ pc[t] = "visuals"
    /\ visuals' = loc[t].profile
    /\ Goto(t, "optimize")
    /\ UNCHANGED <<platform_profile, platform_profile_choices, online, available_features,
                   last_known_profile, default_ac_profile, default_bat_profile, opt,
                   fan_speed, hvars, svars, evars, loc, emitted, start>>

\* set_thermal_profile: _apply_profile_optimizations(profile).
StpOptimize(t) ==
    /\ pc[t] = "optimize"
    /\ opt' = OptimizationSettings(_is_ac_online(online), loc[t].profile)
    /\ Goto(t, "notify")
    /\ UNCHANGED <<platform_profile, platform_profile_choices, online, available_features,
                   last_known_profile, default_ac_profile, default_bat_profile, visuals,
                   fan_speed, hvars, svars, evars, loc, emitted, start>>

\* set_thermal_profile: _notify_event("thermal_profile_changed", ...), return.
StpNotify(t) ==
    /\ pc[t] = "notify"
    /\ emitted' = Append(emitted, ProfileEvent(loc[t].profile))
    /\ Goto(t, "done")
    /\ UNCHANGED <<mvars, hvars, svars, evars, loc, start>>

Step(t) ==
    \/ HpcVisuals(t)
    \/ HpcIntent(t)
    \/ StpValidate(t)
    \/ StpWriteRead(t)
    \/ StpWriteWrite(t)
    \/ StpLastKnown(t)
    \/ StpVisuals(t)
    \/ StpOptimize(t)
    \/ StpNotify(t)

NextThreads ==
    \/ LoopCall
    \/ MonitorCall
    \/ \E t \in Threads : Step(t)

SpecThreads == Init /\ [][NextThreads]_vars

\* The call a thread made, run as a whole on state record s.
WholeCall(s, l) ==
    IF l.op = "set_thermal_profile"
    THEN set_thermal_profile(s, l.arg, l.force, l.wok)
    ELSE handle_power_change(s, l.arg = "true", l.wok)

\* What the steps named by the contract leave behind: the hardware profile,
\* last_known_profile, the optimizations and the profile events in the order
\* of their emission.
Outcome(s) ==
    [ pp |-> s.pp, lkp |-> s.lkp, opt |-> s.opt,
      ev |-> SelectSeq(s.ev, LAMBDA e : e.type = "thermal_profile_changed") ]

SerialOutcome(first, second) ==
    Outcome(WholeCall(WholeCall(start, loc[first]), loc[second]))

BothDone == \A t \in Threads : pc[t] = "done"

\* C2: the calls made from the monitor thread and from the event-loop thread
\* are observed in a total order: once both have returned, the state and the
\* events are those of one of the two serial orders of the calls.
C2_Serializable ==
    BothDone =>
        Outcome([Mgr EXCEPT !.ev = emitted])
            \in { SerialOutcome("loop", "monitor"), SerialOutcome("monitor", "loop") }


-----------------------------------------------------------------------------
(* A client's set_thermal_profile command on the event-loop thread, and the  *)
(* kernel notification its hardware write causes, handled on the monitor's   *)
(* thread by handle_hardware_event.                                          *)

\* process_command calls set_thermal_profile(profile): force is False.
CommandCall ==
    \E profile \in Requests, wok \in BOOLEAN :
        /\ pc["loop"] = "idle"
        /\ loc' = [loc EXCEPT !["loop"] =
                     [ op |-> "set_thermal_profile", arg |-> profile, force |-> FALSE,
                       wok |-> wok, profile |-> profile, success |-> FALSE ]]
        /\ Goto("loop", "validate")
        /\ start' = Mgr
        /\ UNCHANGED <<mvars, hvars, svars, evars, emitted>>

\* The statements of set_thermal_profile.
StpStep(t) ==
    \/ StpValidate(t)
    \/ StpWriteRead(t)
    \/ StpWriteWrite(t)
    \/ StpLastKnown(t)
    \/ StpVisuals(t)
    \/ StpOptimize(t)
    \/ StpNotify(t)

\* The command's write has changed the profile in hardware.
OwnWriteDone ==
    /\ pc["loop"] \in {"side_effects", "visuals", "optimize", "notify", "done"}
    /\ platform_profile # start.pp

\* _monitor_netlink receives the notification of that write and calls
\* handle_hardware_event.
MonitorHardwareEvent ==
    /\ pc["monitor"] = "idle"
    /\ OwnWriteDone
    /\ LET r == handle_hardware_event(Mgr)
       IN  /\ Commit(r)
           /\ emitted' = emitted \o r.ev
    /\ loc' = [loc EXCEPT !["monitor"] = [NoLocals EXCEPT !.op = "handle_hardware_event"]]
    /\ Goto("monitor", "done")
    /\ UNCHANGED <<hvars, svars, evars, start>>

NextOwnWrite ==
    \/ CommandCall
    \/ StpStep("loop")
    \/ MonitorHardwareEvent

SpecOwnWrite == Init /\ [][NextOwnWrite]_vars

\* C36: a profile change written through a client's set_thermal_profile
\* command produces exactly one thermal_profile_changed event, wherever the
\* monitor's handling of the write's notification falls: once the command
\* has returned success, one profile event has been emitted.
C36_OneEventPerOwnWrite ==
    (pc["loop"] = "done" /\ loc["loop"].success /\ platform_profile # start.pp)
        => Len(ProfileEvents(emitted)) = 1

-----------------------------------------------------------------------------
(* DaemonServer on its asyncio event loop.  The loop is asyncio's: each      *)
(* iteration polls the selector, appends the callbacks of the I/O events to  *)
(* the ready queue and runs the callbacks that are in the queue at that      *)
(* moment, in order; what a callback schedules runs in a later iteration.    *)
(* A client closes only when it has read everything written to it.           *)

Callback(cb, c, t, ev) == [cb |-> cb, c |-> c, t |-> t, ev |-> ev]

\* A line a client sends: what json.loads makes of it ("object", "array" or
\* "invalid"), and the command and the params of a request object.  The
\* params are the profile they name, or something that is not a dict.
Line(json, command, params) == [json |-> json, command |-> command, params |-> params]

NotADict == "not_a_dict"

GetThermalProfile == Line("object", "get_thermal_profile", "")
SetPerformance == Line("object", "set_thermal_profile", "performance")
SetNotADict == Line("object", "set_thermal_profile", NotADict)
UnknownCommand == Line("object", "bogus", "")
NotAnObject == Line("array", "", "")
InvalidJson == Line("invalid", "", "")

\* The lines the clients of the server send.
ServerLines == {GetThermalProfile, SetPerformance}

\* The lines a client may send on its connection.
ClientLines ==
    {GetThermalProfile, SetPerformance, SetNotADict, UnknownCommand, NotAnObject, InvalidJson}

\* The response process_command returns.
Response(success, error) == [type |-> "response", success |-> success, error |-> error]

\* str(e) of the AttributeError that params.get raises on a str.
FaultMessage == "'str' object has no attribute 'get'"

\* process_command answering an unknown command with success.
process_command_unknown_succeeds(s, command, params, wok) ==
    IF command = "get_thermal_profile"
    THEN [ mgr |-> s,
           response |-> IF "thermal_profile" \notin s.af
                        THEN Response(FALSE, "Thermal profile is not supported on this device")
                        ELSE Response(TRUE, "") ]
    ELSE IF command = "set_thermal_profile"
    THEN IF "thermal_profile" \notin s.af
         THEN [ mgr |-> s,
                response |-> Response(FALSE, "Thermal profile is not supported on this device") ]
         ELSE IF params = NotADict
         THEN [ mgr |-> s, response |-> Response(FALSE, FaultMessage) ]
         ELSE LET r == set_thermal_profile(s, params, FALSE, wok)
              IN  [ mgr |-> r,
                    response |-> Response(r.ret, IF r.ret THEN ""
                                                 ELSE "Failed to set thermal profile") ]
    ELSE [ mgr |-> s, response |-> Response(TRUE, "") ]

\* process_command(command, params) on manager state s: the state it leaves
\* and the response it returns.  An exception of a branch is caught and its
\* message returned.
process_command(s, command, params, wok) ==
    IF command = "get_thermal_profile"
    THEN [ mgr |-> s,
           response |-> IF "thermal_profile" \notin s.af
                        THEN Response(FALSE, "Thermal profile is not supported on this device")
                        ELSE Response(TRUE, "") ]
    ELSE IF command = "set_thermal_profile"
    THEN IF "thermal_profile" \notin s.af
         THEN [ mgr |-> s,
                response |-> Response(FALSE, "Thermal profile is not supported on this device") ]
         ELSE IF params = NotADict
         THEN [ mgr |-> s, response |-> Response(FALSE, FaultMessage) ]
         ELSE LET r == set_thermal_profile(s, params, FALSE, wok)
              IN  [ mgr |-> r,
                    response |-> Response(r.ret, IF r.ret THEN ""
                                                 ELSE "Failed to set thermal profile") ]
    ELSE [ mgr |-> s, response |-> Response(FALSE, "Unknown command: " \o command) ]

\* The frame of a response on the wire; re is the number of the line it
\* answers.
ResponseFrame(response, n) ==
    [ type |-> "response", success |-> response.success, error |-> response.error,
      re |-> n ]

\* _remove_reader cancels the handle of a read event already in the queue.
CancelReader(q, c) ==
    [k \in DOMAIN q |->
        IF q[k].cb = "read_ready" /\ q[k].c = c
        THEN Callback("cancelled", 0, 0, NoEvent) ELSE q[k]]

\* call_soon_threadsafe(lambda: create_task(broadcast_event(...))), one per
\* event.  For the events of a client's command, by is the set of the
\* clients connected when the command ran; it is empty for the other events.
Bridge(ev, by) == [k \in DOMAIN ev |-> Callback("create", by, 0, ev[k])]

\* sync_callback on the events the manager has emitted: they are dropped
\* when the server is not running.
ScheduledBy(ev, by) == IF daemon.running THEN Bridge(ev, by) ELSE <<>>

Scheduled(ev) == ScheduledBy(ev, {})

TaskIds == 1 .. Len(tasks)

\* The tasks suspended in writer.drain() on client c, and their wake-ups.
DrainWaiters(c) ==
    SelectSeq([k \in TaskIds |-> k],
              LAMBDA k : tasks[k].st = "drain_wait" /\ tasks[k].at = c)

WakeWaiters(c) ==
    LET w == DrainWaiters(c)
        h == IF conn[c].hpc = "drain_wait"
             THEN <<Callback("hc_wake", c, 0, NoEvent)>> ELSE <<>>
    IN  h \o [k \in DOMAIN w |-> Callback("b_wake", 0, w[k], NoEvent)]

WokenTasks(c) ==
    [k \in TaskIds |->
        IF tasks[k].st = "drain_wait" /\ tasks[k].at = c
        THEN [tasks[k] EXCEPT !.st = "woken"] ELSE tasks[k]]

WokenHandler(c) ==
    IF conn[c].hpc = "drain_wait" THEN "drain_woken"
    ELSE IF conn[c].hpc = "wait_read" THEN "woken"
    ELSE conn[c].hpc

\* The wake-up of a handler suspended in reader.readuntil.
WakeReader(c) ==
    IF conn[c].hpc = "wait_read"
    THEN <<Callback("hc_wake", c, 0, NoEvent)>> ELSE <<>>

UnchangedManager == UNCHANGED <<mvars, hvars, cvars, evars>>

\* ---- environment: the clients and the power monitor ----

\* What the clients together have done so far.
RECURSIVE Total(_, _)
Total(f, S) ==
    IF S = {} THEN 0
    ELSE LET c == CHOOSE x \in S : TRUE IN f[c] + Total(f, S \ {c})

RequestsSent == Total([c \in ClientIds |-> Len(conn[c].sent)], ClientIds)

Closes == Cardinality({c \in ClientIds : conn[c].peer = "closed"})

Stalls == Total([c \in ClientIds |-> conn[c].stalls], ClientIds)

\* The closes, the stalls and the power changes so far.
Incidents == Closes + Stalls + power_changes

\* A client connects to the socket; clients are numbered as they connect.
ClientConnect(c) ==
    /\ conn[c].st = "none"
    /\ \A k \in 1 .. c - 1 : conn[k].st # "none"
    /\ conn' = [conn EXCEPT ![c].st = "pending"]
    /\ UNCHANGED <<clients, ready, ntodo, current_task, tasks, power_changes>>
    /\ UnchangedManager

\* A client sends a request line.
ClientSend(c) ==
    /\ conn[c].st \in {"pending", "accepted", "open"}
    /\ conn[c].peer = "alive"
    /\ RequestsSent < MaxRequests
    /\ \E line \in ServerLines :
          conn' = [conn EXCEPT ![c].sent = Append(@, line),
                               ![c].inbuf = Append(@, [line |-> line, n |-> Len(conn[c].sent) + 1])]
    /\ UNCHANGED <<clients, ready, ntodo, current_task, tasks, power_changes>>
    /\ UnchangedManager

\* A client closes its socket.
ClientClose(c) ==
    /\ conn[c].st \in {"pending", "accepted", "open"}
    /\ conn[c].peer = "alive"
    /\ ~conn[c].stalled /\ ~conn[c].paused
    /\ Incidents < MaxIncidents
    /\ conn' = [conn EXCEPT ![c].peer = "closed"]
    /\ UNCHANGED <<clients, ready, ntodo, current_task, tasks, power_changes>>
    /\ UnchangedManager

\* A client stops reading and its buffers are full.
ClientStall(c) ==
    /\ conn[c].st = "open"
    /\ conn[c].peer = "alive"
    /\ ~conn[c].stalled
    /\ Incidents < MaxIncidents
    /\ conn' = [conn EXCEPT ![c].stalled = TRUE, ![c].stalls = @ + 1]
    /\ UNCHANGED <<clients, ready, ntodo, current_task, tasks, power_changes>>
    /\ UnchangedManager

\* A client that had stopped reading reads again.
ClientResume(c) ==
    /\ conn[c].stalled
    /\ conn' = [conn EXCEPT ![c].stalled = FALSE]
    /\ UNCHANGED <<clients, ready, ntodo, current_task, tasks, power_changes>>
    /\ UnchangedManager

\* sync_callback starting broadcast_event itself, on the monitor thread: the
\* broadcasts are created there and take the size of the client set.
MonitorPowerChange_direct ==
    \E on \in OnlineConfigs, wok \in BOOLEAN :
        /\ Incidents < MaxIncidents
        /\ _is_ac_connected(on) # _is_ac_connected(online)
        /\ LET s == handle_power_change([Mgr EXCEPT !.on = on], _is_ac_connected(on), wok)
           IN  /\ Commit(s)
               /\ tasks' = tasks \o [k \in DOMAIN s.ev |->
                                       [ ev |-> s.ev[k], st |-> "created",
                                         size |-> Cardinality(clients),
                                         began |-> clients, visited |-> {},
                                         stale |-> {}, delivered |-> {}, at |-> 0,
                                         by |-> {} ]]
               /\ ready' = ready \o [k \in DOMAIN s.ev |->
                                       Callback("b_step", 0, Len(tasks) + k, NoEvent)]
        /\ power_changes' = power_changes + 1
        /\ UNCHANGED <<clients, ntodo, current_task, conn, hvars, cvars, evars>>

\* The power source changes and the monitor thread's check_power_source
\* calls handle_power_change; the events reach the loop's queue through
\* call_soon_threadsafe.  sync_callback reads the server's flag on the
\* monitor thread: when the server is stopped meanwhile, the event whose
\* check had passed is still queued or not (late).
MonitorPowerChange ==
    \E on \in OnlineConfigs, wok, late \in BOOLEAN :
        /\ Incidents < MaxIncidents
        /\ _is_ac_connected(on) # _is_ac_connected(online)
        /\ LET s == handle_power_change([Mgr EXCEPT !.on = on], _is_ac_connected(on), wok)
           IN  /\ Commit(s)
               /\ ready' = ready \o (IF daemon.running \/ ~late \/ s.ev = <<>>
                                      THEN Scheduled(s.ev)
                                      ELSE Bridge(<<Head(s.ev)>>, {}))
        /\ power_changes' = power_changes + 1
        /\ UNCHANGED <<clients, ntodo, current_task, tasks, conn, hvars, cvars, evars>>

\* ---- the event loop ----

Pending == SelectSeq([k \in ClientIds |-> k], LAMBDA k : conn[k].st = "pending")

Readable(c) ==
    /\ conn[c].reg /\ conn[c].st = "open"
    /\ conn[c].inbuf # <<>> \/ (conn[c].peer = "closed" /\ ~conn[c].eof)

Writable(c) == conn[c].st = "open" /\ conn[c].paused /\ ~conn[c].stalled

\* The I/O events the selector reports.
IOEvents ==
    (IF Pending # <<>> /\ daemon.listening
     THEN {Callback("accept", 0, 0, NoEvent)} ELSE {})
    \cup {Callback("read_ready", c, 0, NoEvent) : c \in {k \in ClientIds : Readable(k)}}
    \cup {Callback("write_ready", c, 0, NoEvent) : c \in {k \in ClientIds : Writable(k)}}

\* _run_once: the selector is polled, the callbacks of its events are
\* appended in the order it reports them, and the queue's present length is
\* the number of callbacks this iteration runs.  With nothing to run the loop
\* stays in the selector.
Select ==
    /\ current_task = 0
    /\ ntodo = 0
    /\ \E io \in [1 .. Cardinality(IOEvents) -> IOEvents] :
          /\ \A j, k \in DOMAIN io : io[j] = io[k] => j = k
          /\ ready' = ready \o io
    /\ ready' # <<>>
    /\ ntodo' = Len(ready')
    /\ UNCHANGED <<clients, current_task, tasks, conn, power_changes>>
    /\ UnchangedManager

\* The loop takes the callback cb from the head of the queue.
Runs(cb) ==
    /\ current_task = 0
    /\ ntodo > 0
    /\ Head(ready).cb = cb
    /\ ntodo' = ntodo - 1

Rest == Tail(ready)

\* A handle cancelled before its turn.
RunCancelled ==
    /\ Runs("cancelled")
    /\ ready' = Rest
    /\ UNCHANGED <<clients, current_task, tasks, conn, power_changes>>
    /\ UnchangedManager

\* The listening socket: every pending connection is accepted and its set-up
\* is scheduled.
RunAccept ==
    /\ Runs("accept")
    /\ ready' = Rest \o [k \in DOMAIN Pending |-> Callback("accept2", Pending[k], 0, NoEvent)]
    /\ conn' = [c \in ClientIds |->
                   IF conn[c].st = "pending" THEN [conn[c] EXCEPT !.st = "accepted"]
                   ELSE conn[c]]
    /\ UNCHANGED <<clients, current_task, tasks, power_changes>>
    /\ UnchangedManager

\* The transport is made: connection_made and the reader's registration are
\* scheduled.
RunAccept2 ==
    /\ Runs("accept2")
    /\ LET c == Head(ready).c
       IN  ready' = Rest \o << Callback("connection_made", c, 0, NoEvent),
                               Callback("add_reader", c, 0, NoEvent) >>
    /\ UNCHANGED <<clients, current_task, tasks, conn, power_changes>>
    /\ UnchangedManager

\* connection_made: the task of handle_client(reader, writer) is created.
RunConnectionMade ==
    /\ Runs("connection_made")
    /\ LET c == Head(ready).c
       IN  /\ conn' = [conn EXCEPT ![c].st = "open", ![c].hpc = "start"]
           /\ ready' = Rest \o <<Callback("hc_start", c, 0, NoEvent)>>
    /\ UNCHANGED <<clients, current_task, tasks, power_changes>>
    /\ UnchangedManager

\* The socket is registered with the selector for reading.
RunAddReader ==
    /\ Runs("add_reader")
    /\ conn' = [conn EXCEPT ![Head(ready).c].reg = TRUE]
    /\ ready' = Rest
    /\ UNCHANGED <<clients, current_task, tasks, power_changes>>
    /\ UnchangedManager

\* The transport reads the socket: data is fed to the reader, an end of
\* stream is fed as EOF and ends the reading; either wakes a handler waiting
\* in readuntil.
RunReadReady ==
    /\ Runs("read_ready")
    /\ LET c == Head(ready).c
       IN  IF conn[c].st # "open" \/ ~Readable(c)
           THEN ready' = Rest /\ UNCHANGED conn
           ELSE /\ ready' = Rest \o WakeReader(c)
                /\ conn' = [conn EXCEPT
                       ![c].rdbuf = @ \o conn[c].inbuf,
                       ![c].inbuf = <<>>,
                       ![c].eof = (conn[c].inbuf = <<>>),
                       ![c].reg = (conn[c].inbuf # <<>>),
                       ![c].hpc = IF @ = "wait_read" THEN "woken" ELSE @]
    /\ UNCHANGED <<clients, current_task, tasks, power_changes>>
    /\ UnchangedManager

\* The socket takes data again: the buffer is flushed, writing is resumed and
\* the tasks waiting in drain are woken.
RunWriteReady ==
    /\ Runs("write_ready")
    /\ LET c == Head(ready).c
       IN  IF ~Writable(c)
           THEN ready' = Rest /\ UNCHANGED <<conn, tasks>>
           ELSE /\ ready' = Rest \o WakeWaiters(c)
                /\ tasks' = WokenTasks(c)
                /\ conn' = [conn EXCEPT ![c].paused = FALSE,
                                        ![c].hpc = IF @ = "drain_wait" THEN "drain_woken" ELSE @]
    /\ UNCHANGED <<clients, current_task, power_changes>>
    /\ UnchangedManager

\* connection_lost: the protocol and the reader learn of it; the handler
\* waiting in readuntil and the tasks waiting in drain are woken.
RunConnectionLost ==
    /\ Runs("conn_lost")
    /\ LET c == Head(ready).c
       IN  /\ ready' = Rest \o WakeReader(c) \o WakeWaiters(c)
           /\ tasks' = WokenTasks(c)
           /\ conn' = [conn EXCEPT ![c] = Settled([@ EXCEPT !.st = "closed",
                                                          !.hpc = WokenHandler(c)])]
    /\ UNCHANGED <<clients, current_task, power_changes>>
    /\ UnchangedManager

\* handle_client leaves its loop: the finally block discards the client and
\* closes the writer; closing an open transport schedules connection_lost.
\* The finally block of handle_client without the discard.
HandlerExit_keeps(c, q) ==
    /\ clients' = clients
    /\ IF conn[c].st = "open"
       THEN /\ conn' = [conn EXCEPT ![c].hpc = "done", ![c].st = "lost",
                                    ![c].reg = FALSE, ![c].rdbuf = <<>>]
            /\ ready' = CancelReader(q, c) \o <<Callback("conn_lost", c, 0, NoEvent)>>
       ELSE /\ conn' = [conn EXCEPT ![c] = Settled([@ EXCEPT !.hpc = "done", !.rdbuf = <<>>])]
            /\ ready' = q

HandlerExit(c, q) ==
    /\ clients' = clients \ {c}
    /\ IF conn[c].st = "open"
       THEN /\ conn' = [conn EXCEPT ![c].hpc = "done", ![c].st = "lost",
                                    ![c].reg = FALSE, ![c].rdbuf = <<>>]
            /\ ready' = CancelReader(q, c) \o <<Callback("conn_lost", c, 0, NoEvent)>>
       ELSE /\ conn' = [conn EXCEPT ![c] = Settled([@ EXCEPT !.hpc = "done", !.rdbuf = <<>>])]
            /\ ready' = q

\* handle_client up to its first await: the client joins the set,
\* sync_full_state runs and its events are scheduled, and the handler waits
\* in reader.readuntil.
RunHandlerStart ==
    /\ Runs("hc_start")
    /\ LET c == Head(ready).c
           s == sync_full_state(Mgr, TRUE)
       IN  IF conn[c].hpc = "cancelled"
           THEN \* the task was cancelled before its first step
                /\ conn' = [conn EXCEPT ![c] = Settled([@ EXCEPT !.hpc = "done"])]
                /\ ready' = Rest
                /\ UNCHANGED <<clients, mvars>>
           ELSE IF daemon.running
           THEN /\ clients' = clients \cup {c}
                /\ Commit(s)
                /\ ready' = Rest \o Scheduled(s.ev)
                /\ conn' = [conn EXCEPT ![c].hpc = "wait_read"]
           ELSE \* while self.running is not entered: the finally block
                /\ Commit(s)
                /\ HandlerExit(c, Rest)
    /\ UNCHANGED <<current_task, tasks, power_changes, hvars, cvars, evars>>

\* handle_client letting the error of a line that is no request end every
\* session.
HandlerSkip_ends_sessions(c, q) ==
    /\ conn' = [conn EXCEPT ![c].rdbuf = Tail(@), ![c].hpc = "wait_read"]
    /\ clients' = {}
    /\ ready' = q
    /\ ntodo' = ntodo - 1

\* handle_client has a line that is no request: json.loads raises
\* JSONDecodeError, or request.get raises AttributeError; the error is
\* logged and the loop goes to its next readuntil.  q is the rest of the
\* loop's queue.
HandlerSkip(c, q) ==
    IF Len(conn[c].rdbuf) > 1
    THEN \* the next line is already there
         /\ conn' = [conn EXCEPT ![c].rdbuf = Tail(@)]
         /\ UNCHANGED <<ready, ntodo, clients>>
    ELSE IF conn[c].st \in {"open", "lost"} /\ ~conn[c].eof
    THEN \* the handler waits in readuntil
         /\ conn' = [conn EXCEPT ![c].rdbuf = Tail(@), ![c].hpc = "wait_read"]
         /\ ready' = q
         /\ ntodo' = ntodo - 1
         /\ UNCHANGED clients
    ELSE \* readuntil meets the end of the stream
         /\ HandlerExit(c, q)
         /\ ntodo' = ntodo - 1

\* handle_client has written its response: writer.write(response_data),
\* await writer.drain().  q is the rest of the loop's queue.
HandlerWrite(c, frame, q) ==
    IF conn[c].st = "open" /\ conn[c].peer = "closed"
    THEN \* the send fails: the transport is closed by force, drain yields
         /\ conn' = [conn EXCEPT ![c].rdbuf = Tail(@), ![c].st = "lost",
                                 ![c].reg = FALSE, ![c].hpc = "drain_yield"]
         /\ ready' = CancelReader(q, c) \o << Callback("conn_lost", c, 0, NoEvent),
                                              Callback("hc_wake", c, 0, NoEvent) >>
         /\ ntodo' = ntodo - 1
         /\ UNCHANGED clients
    ELSE IF conn[c].st = "open" /\ (conn[c].stalled \/ conn[c].paused)
    THEN \* the response is buffered above the high-water mark: drain waits
         /\ conn' = [conn EXCEPT ![c].rdbuf = Tail(@), ![c].paused = TRUE,
                                 ![c].out = Append(@, frame),
                                 ![c].hpc = "drain_wait"]
         /\ ready' = q
         /\ ntodo' = ntodo - 1
         /\ UNCHANGED clients
    ELSE IF conn[c].st = "open" /\ Len(conn[c].rdbuf) > 1
    THEN \* written; drain returns and the next line is already there: the
         \* handler goes on within the same callback
         /\ conn' = [conn EXCEPT ![c].rdbuf = Tail(@),
                                 ![c].out = Append(@, frame)]
         /\ ready' = <<Head(ready)>> \o q
         /\ UNCHANGED <<ntodo, clients>>
    ELSE IF conn[c].st = "open" /\ ~conn[c].eof
    THEN \* written; drain returns; the handler waits in readuntil
         /\ conn' = [conn EXCEPT ![c].rdbuf = Tail(@),
                                 ![c].out = Append(@, frame),
                                 ![c].hpc = "wait_read"]
         /\ ready' = q
         /\ ntodo' = ntodo - 1
         /\ UNCHANGED clients
    ELSE IF conn[c].st = "open"
    THEN \* written; drain returns; readuntil meets the end of the stream
         /\ clients' = clients \ {c}
         /\ conn' = [conn EXCEPT ![c].rdbuf = <<>>,
                                 ![c].out = Append(@, frame),
                                 ![c].hpc = "done", ![c].st = "lost", ![c].reg = FALSE]
         /\ ready' = CancelReader(q, c) \o <<Callback("conn_lost", c, 0, NoEvent)>>
         /\ ntodo' = ntodo - 1
    ELSE IF conn[c].st = "lost"
    THEN \* the write is dropped; the transport is closing: drain yields
         /\ conn' = [conn EXCEPT ![c].rdbuf = Tail(@), ![c].hpc = "drain_yield"]
         /\ ready' = q \o <<Callback("hc_wake", c, 0, NoEvent)>>
         /\ ntodo' = ntodo - 1
         /\ UNCHANGED clients
    ELSE \* the write is dropped; drain raises the reader's exception, and so
         \* does the next readuntil
         /\ HandlerExit(c, q)
         /\ ntodo' = ntodo - 1

\* handle_client leaving a request with an unknown command unanswered.
HandlerRespond_unknown_unanswered(c) ==
    \E wok \in BOOLEAN :
        LET head == Head(conn[c].rdbuf)
            r == process_command(Mgr, head.line.command, head.line.params, wok)
        IN  IF head.line.json = "object" /\ head.line # UnknownCommand
            THEN /\ Commit(r.mgr)
                 /\ HandlerWrite(c, ResponseFrame(r.response, head.n),
                                 Rest \o ScheduledBy(r.mgr.ev, clients))
            ELSE /\ HandlerSkip(c, Rest)
                 /\ UNCHANGED mvars

\* handle_client writing the event of the command at once and leaving the
\* response to the loop.
HandlerRespond_event_first(c) ==
    \E wok \in BOOLEAN :
        LET head == Head(conn[c].rdbuf)
            r == process_command(Mgr, head.line.command, head.line.params, wok)
        IN  IF head.line.json = "object"
            THEN /\ Commit(r.mgr)
                 /\ IF r.mgr.ev # <<>>
                    THEN HandlerWrite(c, r.mgr.ev[1],
                                      Rest \o ScheduledBy(<<ResponseFrame(r.response, head.n)>>,
                                                          clients))
                    ELSE HandlerWrite(c, ResponseFrame(r.response, head.n), Rest)
            ELSE /\ HandlerSkip(c, Rest)
                 /\ UNCHANGED mvars

\* handle_client has a line: json.loads, process_command, the response.
\* The events of the command are scheduled as the manager emits them.
HandlerRespond(c) ==
    \E wok \in BOOLEAN :
        LET head == Head(conn[c].rdbuf)
            r == process_command(Mgr, head.line.command, head.line.params, wok)
        IN  IF head.line.json = "object"
            THEN /\ Commit(r.mgr)
                 /\ HandlerWrite(c, ResponseFrame(r.response, head.n),
                                 Rest \o ScheduledBy(r.mgr.ev, clients))
            ELSE /\ HandlerSkip(c, Rest)
                 /\ UNCHANGED mvars

\* handle_client resumes from readuntil or from drain.
RunHandlerWake ==
    /\ current_task = 0
    /\ ntodo > 0
    /\ Head(ready).cb = "hc_wake"
    /\ LET c == Head(ready).c
       IN  IF conn[c].hpc = "woken" /\ conn[c].rdbuf # <<>>
           THEN HandlerRespond(c)
           ELSE IF conn[c].hpc = "drain_woken" /\ conn[c].st = "open"
                   /\ ~conn[c].eof /\ conn[c].rdbuf = <<>>
           THEN /\ conn' = [conn EXCEPT ![c].hpc = "wait_read"]
                /\ ready' = Rest
                /\ ntodo' = ntodo - 1
                /\ UNCHANGED <<clients, mvars>>
           ELSE IF conn[c].hpc = "drain_woken" /\ conn[c].st = "open" /\ conn[c].rdbuf # <<>>
           THEN /\ conn' = [conn EXCEPT ![c].hpc = "woken"]
                /\ UNCHANGED <<ready, ntodo, clients, mvars>>
           ELSE \* end of stream, or the connection was lost
                /\ HandlerExit(c, Rest)
                /\ ntodo' = ntodo - 1
                /\ UNCHANGED mvars
    /\ UNCHANGED <<current_task, tasks, power_changes, hvars, cvars, evars>>

\* create_task(self.broadcast_event(event_type, data)).
NewTask(ev) ==
    [ ev |-> ev, st |-> "created", size |-> 0, began |-> {}, visited |-> {},
      stale |-> {}, delivered |-> {}, at |-> 0, by |-> {} ]

RunCreate ==
    /\ Runs("create")
    /\ tasks' = Append(tasks, [NewTask(Head(ready).ev) EXCEPT !.by = Head(ready).c])
    /\ ready' = Rest \o <<Callback("b_step", 0, Len(tasks) + 1, NoEvent)>>
    /\ UNCHANGED <<clients, current_task, conn, power_changes>>
    /\ UnchangedManager

\* A task that has returned: its iterator is gone.
Finished(b, st) ==
    [b EXCEPT !.st = st, !.ev = NoEvent, !.size = 0, !.visited = {}, !.at = 0]

\* broadcast_event up to its for loop: nothing to do without clients;
\* otherwise the iteration over self.clients begins.
RunBroadcastStep ==
    /\ Runs("b_step")
    /\ LET i == Head(ready).t
       IN  IF tasks[i].st = "cancelled"
           THEN /\ tasks' = [tasks EXCEPT ![i] = Finished(@, "cancelled")]
                /\ UNCHANGED current_task
           ELSE IF clients = {}
           THEN /\ tasks' = [tasks EXCEPT ![i].st = "done"]
                /\ UNCHANGED current_task
           ELSE /\ tasks' = [tasks EXCEPT ![i].st = "running",
                                          ![i].size = Cardinality(clients),
                                          ![i].began = clients]
                /\ current_task' = i
    /\ ready' = Rest
    /\ UNCHANGED <<clients, conn, power_changes>>
    /\ UnchangedManager

\* broadcast_event resumes from writer.drain(): a lost connection raises and
\* the client is put on stale_clients.
RunBroadcastWake ==
    /\ Runs("b_wake")
    /\ LET i == Head(ready).t
           c == tasks[i].at
       IN  IF tasks[i].st = "cancelled"
           THEN \* CancelledError is no Exception: the task ends
                /\ tasks' = [tasks EXCEPT ![i] = Finished(@, "cancelled")]
                /\ UNCHANGED current_task
           ELSE /\ tasks' = [tasks EXCEPT
                       ![i].st = "running",
                       ![i].visited = @ \cup {c},
                       ![i].stale = IF conn[c].st = "closed" THEN @ \cup {c} ELSE @]
                /\ current_task' = i
    /\ ready' = Rest
    /\ UNCHANGED <<clients, conn, power_changes>>
    /\ UnchangedManager

\* The for loop of broadcast_event, one turn: the set iterator raises if the
\* set has changed size; at the end the stale clients are discarded;
\* otherwise writer.write(message) and await writer.drain() for a client not
\* yet visited, in the set's own order.
BroadcastNext ==
    /\ current_task # 0
    /\ LET i == current_task
           b == tasks[i]
       IN  IF Cardinality(clients) # b.size
           THEN \* RuntimeError, caught by the outer except: "Broadcast error"
                /\ tasks' = [tasks EXCEPT ![i] = Finished(b, "aborted")]
                /\ current_task' = 0
                /\ UNCHANGED <<clients, conn, ready>>
           ELSE IF clients \ b.visited = {}
           THEN /\ clients' = clients \ b.stale
                /\ tasks' = [tasks EXCEPT ![i] = Finished(b, "done")]
                /\ current_task' = 0
                /\ UNCHANGED <<conn, ready>>
           ELSE \E c \in clients \ b.visited :
                  IF conn[c].st = "open" /\ conn[c].peer = "closed"
                  THEN \* the send fails: the transport is closed by force and
                       \* drain yields to the loop
                       /\ conn' = [conn EXCEPT ![c].st = "lost", ![c].reg = FALSE]
                       /\ ready' = CancelReader(ready, c)
                                     \o << Callback("conn_lost", c, 0, NoEvent),
                                           Callback("b_wake", 0, i, NoEvent) >>
                       /\ tasks' = [tasks EXCEPT ![i].st = "drain_yield", ![i].at = c]
                       /\ current_task' = 0
                       /\ UNCHANGED clients
                  ELSE IF conn[c].st = "open" /\ (conn[c].stalled \/ conn[c].paused)
                  THEN \* buffered above the high-water mark: drain waits
                       /\ conn' = [conn EXCEPT ![c].paused = TRUE,
                                               ![c].out = Append(@, b.ev)]
                       /\ tasks' = [tasks EXCEPT ![i].st = "drain_wait", ![i].at = c,
                                                 ![i].delivered = @ \cup {c}]
                       /\ current_task' = 0
                       /\ UNCHANGED <<clients, ready>>
                  ELSE IF conn[c].st = "open"
                  THEN \* written, and drain returns at once
                       /\ conn' = [conn EXCEPT ![c].out = Append(@, b.ev)]
                       /\ tasks' = [tasks EXCEPT ![i].visited = @ \cup {c},
                                                 ![i].delivered = @ \cup {c}]
                       /\ UNCHANGED <<clients, ready, current_task>>
                  ELSE IF conn[c].st = "lost"
                  THEN \* the write is dropped; the transport is closing:
                       \* drain yields to the loop
                       /\ ready' = Append(ready, Callback("b_wake", 0, i, NoEvent))
                       /\ tasks' = [tasks EXCEPT ![i].st = "drain_yield", ![i].at = c]
                       /\ current_task' = 0
                       /\ UNCHANGED <<clients, conn>>
                  ELSE \* the write is dropped; drain raises the reader's exception
                       /\ tasks' = [tasks EXCEPT ![i].visited = @ \cup {c},
                                                 ![i].stale = @ \cup {c}]
                       /\ UNCHANGED <<clients, conn, ready, current_task>>
    /\ UNCHANGED <<ntodo, power_changes>>
    /\ UnchangedManager

NextServer ==
    \/ \E c \in ClientIds : ClientConnect(c)
    \/ \E c \in ClientIds : ClientSend(c)
    \/ \E c \in ClientIds : ClientClose(c)
    \/ \E c \in ClientIds : ClientStall(c)
    \/ \E c \in ClientIds : ClientResume(c)
    \/ MonitorPowerChange
    \/ Select
    \/ RunCancelled
    \/ RunAccept
    \/ RunAccept2
    \/ RunConnectionMade
    \/ RunAddReader
    \/ RunReadReady
    \/ RunWriteReady
    \/ RunConnectionLost
    \/ RunHandlerStart
    \/ RunHandlerWake
    \/ RunCreate
    \/ RunBroadcastStep
    \/ RunBroadcastWake
    \/ BroadcastNext

\* The server is followed on one machine: three profile choices, the thermal
\* feature, the stock defaults, an AC supply and the balanced profile.
ServerHardware ==
    /\ platform_profile_choices = <<"quiet", "balanced", "performance">>
    /\ "thermal_profile" \in available_features
    /\ default_ac_profile = "balanced"
    /\ online[1] # "absent"
    /\ platform_profile = "balanced"

InitServerSpec == Init /\ ServerHardware

SpecServer == InitServerSpec /\ [][NextServer]_vars

-----------------------------------------------------------------------------
(* Properties of the server, checked under SpecServer.                       *)

\* The frames written to client c so far.
Written(c) == conn[c].out

\* C1: on every connection, whenever the client's request arrives, a
\* power_state_changed event is written to the client before any command
\* response is written to it.
C1_PowerEventBeforeResponse ==
    \A c \in ClientIds :
        \A k \in DOMAIN Written(c) :
            Written(c)[k].type = "response" =>
                \E j \in 1 .. k - 1 : Written(c)[j].type = "power_state_changed"

\* A client that is connected, reads and is still in the live set.
Live(c) ==
    /\ c \in clients
    /\ conn[c].st = "open" /\ conn[c].peer = "alive"
    /\ ~conn[c].stalled /\ ~conn[c].paused

\* C3: when a broadcast has returned and its write to some client failed,
\* every other client that was in the set when it began, and is still
\* connected, has been written the event.
C3_FailureIsolated ==
    \A i \in TaskIds :
        (tasks[i].st \in {"done", "aborted"} /\ tasks[i].stale # {}) =>
            \A d \in tasks[i].began \ tasks[i].stale :
                Live(d) => d \in tasks[i].delivered

\* C37: a client connecting or disconnecting while a broadcast is suspended
\* in drain does not abort it: a broadcast that has returned was not ended
\* by the set iterator, every client that was in the set when it began and
\* is still connected has been written the event, and no client whose write
\* failed is left in the set.
C37_MembershipChangeHarmless ==
    \A i \in TaskIds :
        tasks[i].st \in {"done", "aborted"} =>
            /\ tasks[i].st = "done"
            /\ \A d \in tasks[i].began : Live(d) => d \in tasks[i].delivered
            /\ tasks[i].stale \cap clients = {}

\* The loop has nothing to run and the selector nothing to report.
LoopIdle == current_task = 0 /\ ready = <<>> /\ IOEvents = {}

\* C4: a client that does not read never holds back an event from another
\* client: the loop is never at rest with a broadcast waiting in drain on a
\* stalled client while a live client of that broadcast is still without
\* the event.
C4_SlowReaderHarmless ==
    \A i \in TaskIds :
        (tasks[i].st = "drain_wait" /\ conn[tasks[i].at].stalled /\ LoopIdle) =>
            \A d \in tasks[i].began \ {tasks[i].at} :
                Live(d) => d \in tasks[i].delivered

\* C24: when a client's command has changed the thermal profile, the
\* thermal_profile_changed event it raised is written to every client that
\* was connected when the command ran, the sender among them, and is still
\* connected and reading: no such client is without the event once the
\* broadcast has returned or the loop is at rest.
C24_CommandEventReachesAll ==
    \A i \in TaskIds :
        \A d \in tasks[i].by :
            (Live(d) /\ (tasks[i].st \in {"done", "aborted"} \/ LoopIdle))
                => d \in tasks[i].delivered

\* A step of the event loop's thread: a callback of the ready queue is run,
\* or the running task goes on.
LoopTurn == (ntodo > 0 /\ ntodo' = ntodo - 1) \/ current_task # 0

\* A step of the monitor thread: handle_power_change has been called.
MonitorTurn == power_changes' = power_changes + 1

\* The callbacks the step has appended to the ready queue.
Appended == SubSeq(ready', Len(ready) + 1, Len(ready'))

\* C30: the client set is read and modified only on the event loop: the set
\* and the broadcasts that iterate it change only in a step of the loop's
\* thread, and a step of the monitor thread leaves the set, the broadcasts
\* and the connections as they are and only appends to the ready queue the
\* callbacks that will create the broadcast tasks on the loop.
C30_ClientSetOnLoopOnly ==
    [][ /\ (clients' # clients \/ tasks' # tasks) => LoopTurn
        /\ MonitorTurn =>
              /\ clients' = clients /\ tasks' = tasks /\ conn' = conn
              /\ current_task' = current_task /\ ntodo' = ntodo
              /\ Len(ready') >= Len(ready)
              /\ SubSeq(ready', 1, Len(ready)) = ready
              /\ \A k \in DOMAIN Appended : Appended[k].cb = "create" ]_vars

\* The frames written to client c that tell the power state is_ac.
PowerFrames(c, is_ac) ==
    {j \in DOMAIN conn[c].out : conn[c].out[j] = PowerEvent(is_ac)}

\* The event of the monitor thread has been written to two clients by a
\* broadcast on the loop: both sessions had started before the change (a
\* client holds the former power state twice, once from each session's
\* start), so that the new power state can only come from the monitor.
C30_Witness ==
    /\ power_changes = 1
    /\ \E c \in ClientIds :
          Cardinality(PowerFrames(c, ~_is_ac_connected(online))) = 2
    /\ \A c \in ClientIds : PowerFrames(c, _is_ac_connected(online)) # {}

\* handle_client of client c has taken its first step and has not returned.
HandlerRunning(c) == conn[c].hpc \notin {"none", "start", "done", "cancelled"}

\* The server has accepted the connection of client c, which is still there.
Connected(c) == conn[c].st \in {"accepted", "open"} /\ conn[c].peer = "alive"

\* What C33 states of the set whatever the moment it is entered: it holds
\* only sessions whose handler has not finished, a session enters it at
\* most once, and when the loop is at rest no session whose client has
\* disconnected or whose connection is lost remains in it.
LiveSetKept ==
    /\ [](\A c \in clients : conn[c].hpc \notin {"none", "done"})
    /\ [][\A c \in clients' \ clients : conn[c].hpc = "start"]_vars
    /\ [](LoopIdle => \A c \in clients : conn[c].st = "open" /\ conn[c].peer = "alive")

\* C33 as stated: a session is in the live set from the moment its
\* connection is accepted.
C33_LiveSetFromAccept ==
    /\ [](\A c \in ClientIds : Connected(c) => c \in clients)
    /\ LiveSetKept

\* C33 amended: a session is in the live set from the first step of its
\* handler, which runs after the connection was accepted.
C33_LiveSetFromHandlerStart ==
    /\ [](\A c \in ClientIds : (Connected(c) /\ HandlerRunning(c)) => c \in clients)
    /\ [](\A c \in clients : HandlerRunning(c))
    /\ LiveSetKept

\* One client has disconnected, its handler has returned and it has left
\* the set; the other is connected and in the set.
C33_Witness ==
    \E c, d \in ClientIds :
        /\ conn[c].peer = "closed" /\ conn[c].hpc = "done" /\ c \notin clients
        /\ Connected(d) /\ d \in clients
        /\ LoopIdle

-----------------------------------------------------------------------------
(* The requests of one connection.  The client connects, sends lines of     *)
(* every kind and may stop reading; it does not close and the power source   *)
(* stays.                                                                    *)

MaxLines == 2

\* A client sends a line.
ClientSendLine(c) ==
    /\ conn[c].st \in {"pending", "accepted", "open"}
    /\ conn[c].peer = "alive"
    /\ RequestsSent < MaxLines
    /\ \E line \in ClientLines :
          conn' = [conn EXCEPT ![c].sent = Append(@, line),
                               ![c].inbuf = Append(@, [line |-> line, n |-> Len(conn[c].sent) + 1])]
    /\ UNCHANGED <<clients, ready, ntodo, current_task, tasks, power_changes>>
    /\ UnchangedManager

NextRequests ==
    \/ ClientConnect(1)
    \/ ClientSendLine(1)
    \/ ClientStall(1)
    \/ ClientResume(1)
    \/ Select
    \/ RunAccept
    \/ RunAccept2
    \/ RunConnectionMade
    \/ RunAddReader
    \/ RunReadReady
    \/ RunWriteReady
    \/ RunHandlerStart
    \/ RunHandlerWake
    \/ RunCreate
    \/ RunBroadcastStep
    \/ RunBroadcastWake
    \/ BroadcastNext

SpecRequests == InitServerSpec /\ [][NextRequests]_vars

\* The responses written to client c, in the order of their writing.
Responses(c) == SelectSeq(conn[c].out, LAMBDA f : f.type = "response")

\* The numbers of the lines of client c that are requests: JSON objects.
WellFormed(c) == {n \in DOMAIN conn[c].sent : conn[c].sent[n].json = "object"}

\* The handler of c has taken every line c has sent and waits for the next.
AtRest(c) ==
    /\ conn[c].st = "open" /\ conn[c].hpc = "wait_read"
    /\ conn[c].inbuf = <<>> /\ conn[c].rdbuf = <<>>

\* The handler of c takes the line at the head of its buffer.
Handles(c) ==
    /\ conn[c].hpc = "woken" /\ conn[c].rdbuf # <<>>
    /\ Len(conn'[c].rdbuf) < Len(conn[c].rdbuf)

Answered(c, n) == \E k \in DOMAIN Responses(c) : Responses(c)[k].re = n

\* C25: on a connection the requests are handled one at a time in the order
\* of their arrival: the responses written answer requests of the
\* connection, each request at most once and in the order of the requests;
\* when the handler has taken every line, every request has its response;
\* and the handler takes a line only when every earlier request has had its
\* response written.
C25_OneAtATimeInOrder ==
    /\ [](\A c \in ClientIds :
            /\ \A k \in DOMAIN Responses(c) : Responses(c)[k].re \in WellFormed(c)
            /\ \A j, k \in DOMAIN Responses(c) :
                    j < k => Responses(c)[j].re < Responses(c)[k].re
            /\ AtRest(c) => \A n \in WellFormed(c) : Answered(c, n))
    /\ [][\A c \in ClientIds :
            Handles(c) => \A n \in WellFormed(c) :
                             n < Head(conn[c].rdbuf).n => Answered(c, n)]_vars

\* Two requests sent while the client was not reading, both answered.
C25_Witness ==
    \E c \in ClientIds :
        /\ AtRest(c) /\ conn[c].stalls > 0
        /\ Len(Responses(c)) = MaxLines

\* Frame f is the thermal_profile_changed event of a set_thermal_profile
\* command for the performance profile.
CommandEvent(f) == f.type = "thermal_profile_changed" /\ f.data = "performance"

\* Frame f is the response to a set_thermal_profile command of client c
\* that succeeded.
CommandAnswer(c, f) ==
    f.type = "response" /\ f.success /\ conn[c].sent[f.re] = SetPerformance

\* C38: for a set_thermal_profile command that succeeds, the requesting
\* client is sent the command's response before the thermal_profile_changed
\* event caused by it: up to any frame written to the client, the events
\* of its commands are no more than the responses to those commands.
C38_ResponseBeforeEvent ==
    \A c \in ClientIds :
        \A k \in DOMAIN conn[c].out :
            Cardinality({j \in 1 .. k : CommandEvent(conn[c].out[j])})
                <= Cardinality({j \in 1 .. k : CommandAnswer(c, conn[c].out[j])})

\* A client has been written the response to its command and then the event
\* of the command.
C38_Witness ==
    \E c \in ClientIds :
        \E j, k \in DOMAIN conn[c].out :
            /\ j < k
            /\ CommandAnswer(c, conn[c].out[j])
            /\ CommandEvent(conn[c].out[k])

\* The handler of c answers the line it takes with a failure and the given
\* error, and the connection stays open and in the set.
ErrorAnswer(c, error) ==
    /\ conn'[c].out = Append(conn[c].out,
                             ResponseFrame(Response(FALSE, error), Head(conn[c].rdbuf).n))
    /\ conn'[c].st = "open" /\ conn'[c].hpc # "done"
    /\ c \in clients'

\* Every request sent after a failed one has its response.
ServedAfterError(c) ==
    \A m, n \in WellFormed(c) :
        (m < n /\ conn[c].sent[m] \in {UnknownCommand, SetNotADict}) => Answered(c, n)

\* C26 as stated: a request with an unknown command is answered with
\* success=false and the error "unknown command" and changes nothing in the
\* manager; a request whose handler raises is answered with success=false
\* and the message of the fault; the connection stays open and the requests
\* that follow are answered.
C26_ErrorResponse ==
    /\ [][\A c \in ClientIds :
            Handles(c) =>
                /\ Head(conn[c].rdbuf).line = UnknownCommand =>
                        ErrorAnswer(c, "unknown command") /\ UNCHANGED mvars
                /\ Head(conn[c].rdbuf).line = SetNotADict =>
                        ErrorAnswer(c, FaultMessage)]_vars
    /\ [](\A c \in ClientIds : AtRest(c) => ServedAfterError(c))

\* C26 amended: the error of an unknown command is "Unknown command: "
\* followed by the command.
C26_ErrorResponseNamesCommand ==
    /\ [][\A c \in ClientIds :
            Handles(c) =>
                /\ Head(conn[c].rdbuf).line = UnknownCommand =>
                        ErrorAnswer(c, "Unknown command: bogus") /\ UNCHANGED mvars
                /\ Head(conn[c].rdbuf).line = SetNotADict =>
                        ErrorAnswer(c, FaultMessage)]_vars
    /\ [](\A c \in ClientIds : AtRest(c) => ServedAfterError(c))

\* An unknown command and a fault, both answered.
C26_Witness ==
    \E c \in ClientIds :
        /\ AtRest(c)
        /\ conn[c].sent = <<UnknownCommand, SetNotADict>>
        /\ Len(Responses(c)) = 2

-----------------------------------------------------------------------------
(* The lines of several connections.  The clients connect and send lines of *)
(* every kind; they read what is written to them, none closes and the power  *)
(* source stays.                                                             *)

NextFrames ==
    \/ \E c \in ClientIds : ClientConnect(c)
    \/ \E c \in ClientIds : ClientSendLine(c)
    \/ Select
    \/ RunAccept
    \/ RunAccept2
    \/ RunConnectionMade
    \/ RunAddReader
    \/ RunReadReady
    \/ RunHandlerStart
    \/ RunHandlerWake
    \/ RunCreate
    \/ RunBroadcastStep
    \/ BroadcastNext

SpecFrames == InitServerSpec /\ [][NextFrames]_vars

-----------------------------------------------------------------------------
(* Properties of the reconciler, checked under Spec.                        *)

IsSet == last.op = "set_thermal_profile"

Choices == Range(get_thermal_profile_choices(available_features, platform_profile_choices))

\* The fallback table as the specification states it: balanced-performance
\* falls back to performance, else to balanced; quiet to low-power.
FallbackTarget(p) ==
    IF p = "balanced-performance"
    THEN IF "performance" \in Choices THEN "performance"
         ELSE IF "balanced" \in Choices THEN "balanced" ELSE ""
    ELSE IF p = "quiet" /\ "low-power" \in Choices THEN "low-power"
    ELSE ""

\* The profile a request stands for: itself when the hardware offers it, its
\* fallback target otherwise, "" when there is none.
Target(p) == IF p \in Choices THEN p ELSE FallbackTarget(p)

TwoSetCalls == prev.op = "set_thermal_profile" /\ IsSet /\ prev.profile = last.profile

\* C5: two consecutive calls set_thermal_profile(X) with the same X and
\* force=false emit at most one thermal_profile_changed event in total, and
\* the second call returns success when the first did.
C5_AtMostOneEvent ==
    (TwoSetCalls /\ ~prev.force /\ ~last.force /\ prev.ret)
        => (prev.nev + Len(ProfileEvents(last.ev)) <= 1 /\ last.ret)

C9_UnmappedFails ==
    (IsSet /\ Target(last.profile) = "")
        => /\ ~last.ret
           /\ last.wr = 0 /\ last.wf = 0
           /\ last.ev = <<>> /\ last.na = 0 /\ last.nv = 0
           /\ ~last.pp_changed /\ ~last.lkp_changed

\* C9 witness: a forced call with an unmapped profile on hardware that has
\* the feature.
C9_Witness ==
    /\ IsSet /\ last.force /\ last.profile = "turbo" /\ ~last.ret
    /\ "thermal_profile" \in available_features

\* C10: last_known_profile is empty or a member of the hardware choice set.
C10_LastKnownValid ==
    last_known_profile = "" \/ last_known_profile \in Range(platform_profile_choices)

\* C10 witness: a power change assigned the configured default.
C10_Witness ==
    /\ last.op = "handle_power_change" /\ last.lkp_changed
    /\ last_known_profile \in {default_ac_profile, default_bat_profile}


\* The last call is one of the two that write the hardware profile.
IsWritingCall == last.op \in {"set_thermal_profile", "handle_power_change"}

\* C11: when the write of the hardware profile fails in an unforced
\* set_thermal_profile or in handle_power_change, last_known_profile keeps
\* the value it had before the call.
C11_FailedWriteKeepsCache ==
    (IsWritingCall /\ ~last.force /\ last.wf > 0) => ~last.lkp_changed

\* The default profile of the power state the last handle_power_change was
\* called with.
PowerTarget == IF last.profile = "true" THEN default_ac_profile ELSE default_bat_profile

\* The last call is a handle_power_change whose default the hardware does not
\* offer.
SkippedSwitch == last.op = "handle_power_change" /\ PowerTarget \notin Choices

\* C12 as stated: when the default profile of the new power state is not in
\* the hardware choice set the switch is skipped, no event at all is emitted,
\* no fallback is substituted and the hardware profile is unchanged.
C12_SkipEmitsNothing ==
    SkippedSwitch => (last.ev = <<>> /\ last.wr = 0 /\ ~last.pp_changed)

\* C12 amended: the skipped switch emits the power_state_changed event of the
\* transition and nothing else; no profile event, no write attempt, no change
\* of the hardware profile or of last_known_profile, no optimizations.
C12_SkipEmitsNoProfileEvent ==
    SkippedSwitch =>
        /\ last.ev = <<PowerEvent(last.profile = "true")>>
        /\ last.wr = 0 /\ last.wf = 0
        /\ ~last.pp_changed /\ ~last.lkp_changed
        /\ last.na = 0

C12_Witness == SkippedSwitch /\ PowerTarget = "quiet"

\* The last call is one of the three that react to a change of the power
\* state or of the profile; a handle_power_change was told the power state
\* the supply files show.
IsReaction ==
    /\ last.op \in {"handle_power_change", "set_thermal_profile", "handle_hardware_event"}
    /\ last.op = "handle_power_change" => (last.profile = "true") = _is_ac_online(online)

\* C13: after every handled power transition, profile command and detected
\* hardware change the applied optimization settings are those of the current
\* (power state, hardware profile) pair.
C13_OptimizationsCurrent ==
    (IsReaction /\ "thermal_profile" \in available_features)
        => opt = OptimizationSettings(_is_ac_online(online),
                                      get_thermal_profile(available_features, platform_profile))

\* The last call handled a transition to battery whose default profile is
\* low-power and offered by the hardware, with the supply files showing no AC
\* and no write failing.
ToBatteryLowPower ==
    /\ last.op = "handle_power_change" /\ last.profile = "false"
    /\ ~_is_ac_online(online)
    /\ default_bat_profile = "low-power" /\ "low-power" \in Choices
    /\ last.wf = 0

MAX_RESTART_ATTEMPTS == 20

\* Consecutive failed detections followed: one more than the cap.
MaxFailures == 21

\* str(n) for a non-negative integer: its decimal digits.
RECURSIVE str(_)
str(n) == IF n < 10 THEN <<n>> ELSE Append(str(n \div 10), n % 10)

\* int(text) for a text of decimal digits; the empty text raises ValueError.
RECURSIVE int(_)
int(text) ==
    IF Len(text) = 0 THEN 0
    ELSE 10 * int(SubSeq(text, 1, Len(text) - 1)) + text[Len(text)]

\* The outcomes of open(path, 'w') + write: written; open refused (file
\* untouched); opened, hence truncated, with the write itself failing.
WriteOutcomes == {"ok", "refused", "truncated"}

\* _get_restart_attempts: the integer in the file; 0 when the file is absent,
\* unreadable (rok false) or does not hold an integer.
_get_restart_attempts(f, rok) ==
    IF f.exists /\ rok /\ f.text # <<>> THEN int(f.text) ELSE 0

\* _increment_restart_attempts: writes the count read plus one and returns
\* it, also when the write failed.
_increment_restart_attempts(f, rok, w) ==
    LET attempts == _get_restart_attempts(f, rok) + 1
    IN  [ attempts |-> attempts,
          file |-> IF w = "ok" THEN [exists |-> TRUE, text |-> str(attempts)]
                   ELSE IF w = "truncated" THEN [exists |-> TRUE, text |-> <<>>]
                   ELSE f ]

\* A reset that writes a zero count instead of unlinking the file.
_reset_restart_attempts_zero(f, uok) ==
    IF f.exists /\ uok THEN [exists |-> TRUE, text |-> <<0>>] ELSE f

\* _reset_restart_attempts: unlinks the file when it exists.
_reset_restart_attempts(f, uok) == IF f.exists /\ uok THEN AbsentFile ELSE f

\* A recovery attempt that runs every step whatever the earlier ones did.
_restart_drivers_and_daemon_all_steps(rm, mp, sv) ==
    [ ret |-> rm /\ mp /\ sv,
      steps |-> <<[cmd |-> "rmmod", ok |-> rm], [cmd |-> "modprobe", ok |-> mp],
                  [cmd |-> "systemctl restart", ok |-> sv]>> ]

\* _restart_drivers_and_daemon: rmmod, modprobe, systemctl restart, each with
\* check=True; the first failing command raises and the attempt returns
\* False.  rm, mp, sv say whether each command would succeed.
_restart_drivers_and_daemon(rm, mp, sv) ==
    LET s1 == <<[cmd |-> "rmmod", ok |-> rm]>>
        s2 == Append(s1, [cmd |-> "modprobe", ok |-> mp])
        s3 == Append(s2, [cmd |-> "systemctl restart", ok |-> sv])
    IN  IF ~rm THEN [ret |-> FALSE, steps |-> s1]
        ELSE IF ~mp THEN [ret |-> FALSE, steps |-> s2]
        ELSE [ret |-> sv, steps |-> s3]

\* A start that attempts recovery whatever the counter holds.
Startup_uncapped(f, detected, rok, w, uok, rm, mp, sv) ==
    IF ~detected
    THEN LET inc == _increment_restart_attempts(f, rok, w)
             rec == _restart_drivers_and_daemon(rm, mp, sv)
         IN  [ file |-> inc.file, attempts |-> inc.attempts, steps |-> rec.steps,
               outcome |-> IF rec.ret THEN "exit" ELSE "degraded" ]
    ELSE [ file |-> _reset_restart_attempts(f, uok), attempts |-> 0,
           steps |-> <<>>, outcome |-> "running" ]

\* __init__ after _detect_laptop_type: with an UNKNOWN type and fewer than
\* MAX_RESTART_ATTEMPTS attempts counted, count one more and attempt the
\* recovery, exit(0) when it returns True and go on with limited
\* functionality otherwise; at the cap go on without attempting; with a known
\* type reset the counter.
Startup(f, detected, rok, w, uok, rm, mp, sv) ==
    IF ~detected
    THEN LET current_attempts == _get_restart_attempts(f, rok)
         IN  IF current_attempts < MAX_RESTART_ATTEMPTS
             THEN LET inc == _increment_restart_attempts(f, rok, w)
                      rec == _restart_drivers_and_daemon(rm, mp, sv)
                  IN  [ file |-> inc.file, attempts |-> inc.attempts,
                        steps |-> rec.steps,
                        outcome |-> IF rec.ret THEN "exit" ELSE "degraded" ]
             ELSE [ file |-> f, attempts |-> current_attempts, steps |-> <<>>,
                    outcome |-> "degraded" ]
    ELSE [ file |-> _reset_restart_attempts(f, uok), attempts |-> 0,
           steps |-> <<>>, outcome |-> "running" ]

\* An operation on the counter file that this start performs fails.
Faulty(f, detected, rok, w, uok) ==
    IF detected THEN f.exists /\ ~uok
    ELSE \/ f.exists /\ ~rok
         \/ _get_restart_attempts(f, rok) < MAX_RESTART_ATTEMPTS /\ w # "ok"

\* The process starts (the service manager starts it after an exit, a crash,
\* a reboot or by hand) and __init__ detects the laptop type.
DetectionSuccess ==
    \E uok \in BOOLEAN :
        LET b == Startup(restart_counter_file, TRUE, TRUE, "ok", uok, TRUE, TRUE, TRUE)
        IN  /\ restart_counter_file' = b.file
            /\ boot' = [ detected |-> TRUE, attempts |-> b.attempts,
                         steps |-> b.steps, outcome |-> b.outcome ]
            /\ failures' = 0
            /\ faults' = Faulty(restart_counter_file, TRUE, TRUE, "ok", uok)
            /\ UNCHANGED <<mvars, hvars, cvars, svars, pvars, lvars>>

\* The process starts and __init__ finds the laptop type UNKNOWN.
DetectionFailure ==
    \E rok, rm, mp, sv \in BOOLEAN, w \in WriteOutcomes :
        LET b == Startup(restart_counter_file, FALSE, rok, w, TRUE, rm, mp, sv)
        IN  /\ failures < MaxFailures
            /\ restart_counter_file' = b.file
            /\ boot' = [ detected |-> FALSE, attempts |-> b.attempts,
                         steps |-> b.steps, outcome |-> b.outcome ]
            /\ failures' = failures + 1
            /\ faults' = (faults \/ Faulty(restart_counter_file, FALSE, rok, w, TRUE))
            /\ UNCHANGED <<mvars, hvars, cvars, svars, pvars, lvars>>

NextStartup == DetectionSuccess \/ DetectionFailure

SpecStartup == InitServerSpec /\ [][NextStartup]_vars

(***************************************************************************)
(* Properties of the start-up recovery, checked under SpecStartup.         *)
(***************************************************************************)

\* The counter file holds the decimal text of n.
Holds(n) == restart_counter_file = [exists |-> TRUE, text |-> str(n)]

\* The last start was a failed detection past the cap: at least
\* MAX_RESTART_ATTEMPTS failed detections came right before it.
PastCap == ~boot.detected /\ failures > MAX_RESTART_ATTEMPTS

\* The last start ran no recovery command and counted nothing.
NoRecovery == boot.steps = <<>> /\ boot.outcome = "degraded" /\ Holds(MAX_RESTART_ATTEMPTS)

CounterFileAsStated ==
    /\ \/ ~restart_counter_file.exists
       \/ \E k \in 1 .. MAX_RESTART_ATTEMPTS : Holds(k)
    /\ (~boot.detected /\ failures \in 1 .. MAX_RESTART_ATTEMPTS) => Holds(failures)
    /\ boot.outcome = "running" => ~restart_counter_file.exists

RecoveryCommands == <<"rmmod", "modprobe", "systemctl restart">>

\* C17: a recovery attempt runs rmmod, modprobe, systemctl restart in this
\* order, each at most once, and stops at the first command that fails; it
\* makes the process exit exactly when the last command, the service restart,
\* succeeded, and leaves it running with limited functionality otherwise.
C17_RecoverySteps ==
    (~boot.detected /\ boot.steps # <<>>) =>
        /\ Len(boot.steps) <= Len(RecoveryCommands)
        /\ \A i \in 1 .. Len(boot.steps) : boot.steps[i].cmd = RecoveryCommands[i]
        /\ \A i \in 1 .. Len(boot.steps) - 1 : boot.steps[i].ok
        /\ (Len(boot.steps) < Len(RecoveryCommands)) => ~boot.steps[Len(boot.steps)].ok
        /\ boot.outcome = (IF Len(boot.steps) = Len(RecoveryCommands)
                              /\ boot.steps[Len(RecoveryCommands)].ok
                           THEN "exit" ELSE "degraded")

C17_Witness ==
    /\ ~boot.detected /\ Len(boot.steps) = 2 /\ ~boot.steps[2].ok
    /\ boot.outcome = "degraded"

(***************************************************************************)
(* PowerSourceDetector: start_monitoring, the monitor thread in its        *)
(* netlink loop or its polling fallback, and check_power_source.  One      *)
(* action is one call made by the main thread or one iteration of the      *)
(* thread's loop.  The netlink socket holds at most one datagram; a change  *)
(* of the supply whose datagram finds the socket full, or for which the    *)
(* kernel sends none, is a missed event.                                    *)
(***************************************************************************)

\* Events of the environment followed (supply changes, profile key presses,
\* other kernel events).
MaxEnvSteps == 3

\* start_monitoring is called by setup() and again by run().
MaxStartCalls == 2

\* str(bool), as current_source is compared and logged.
Bool(b) == IF b THEN "True" ELSE "False"

\* handle_power_change leaving through an exception of
\* _update_hyprland_visuals(target_profile): _get_hyprland_info lists
\* directories outside any try block.  The power event has been emitted.
handle_power_change_raise(s, is_plugged_in) ==
    _notify_event(s, PowerEvent(is_plugged_in))

\* check_power_source that forgets what it observed.
check_power_source_forgetful(cs, s, raises, wok) ==
    LET is_plugged_in == _is_ac_connected(s.on)
    IN  IF Bool(is_plugged_in) # cs
        THEN [ called |-> TRUE, cs |-> cs, raised |-> raises,
               mgr |-> IF raises THEN handle_power_change_raise(s, is_plugged_in)
                       ELSE handle_power_change(s, is_plugged_in, wok) ]
        ELSE [ called |-> FALSE, cs |-> cs, raised |-> FALSE, mgr |-> s ]

\* check_power_source with current_source cs and manager state s: reads the
\* supply; when it differs from current_source, records it and calls
\* handle_power_change, which raises or returns.
check_power_source(cs, s, raises, wok) ==
    LET is_plugged_in == _is_ac_connected(s.on)
    IN  IF Bool(is_plugged_in) # cs
        THEN [ called |-> TRUE, cs |-> Bool(is_plugged_in), raised |-> raises,
               mgr |-> IF raises THEN handle_power_change_raise(s, is_plugged_in)
                       ELSE handle_power_change(s, is_plugged_in, wok) ]
        ELSE [ called |-> FALSE, cs |-> cs, raised |-> FALSE, mgr |-> s ]

\* The state after a check_power_source with result r; the observation and
\* the call are counted.
Checked(r) ==
    /\ Commit(r.mgr)
    /\ current_source' = r.cs
    /\ seen' = Bool(_is_ac_connected(online))
    /\ transitions' = transitions + (IF Bool(_is_ac_connected(online)) # seen THEN 1 ELSE 0)
    /\ calls' = calls + (IF r.called THEN 1 ELSE 0)

\* start_monitoring: returns at once when running; else sets running, makes
\* the initial observation and starts the thread.
start_monitoring(is_running) ==
    IF is_running THEN [ running |-> TRUE, observe |-> FALSE, thread |-> FALSE ]
    ELSE [ running |-> TRUE, observe |-> TRUE, thread |-> TRUE ]

\* AcerSenseDaemon.setup() and run() call start_monitoring.
StartMonitoring ==
    LET r == start_monitoring(running)
    IN  /\ start_calls < MaxStartCalls
        /\ start_calls' = start_calls + 1
        /\ running' = r.running
        /\ current_source' = IF r.observe THEN Bool(_is_ac_connected(online))
                             ELSE current_source
        /\ seen' = IF r.observe THEN Bool(_is_ac_connected(online)) ELSE seen
        /\ observers' = observers + (IF r.thread THEN 1 ELSE 0)
        /\ monitor_thread' = IF r.thread THEN "started" ELSE monitor_thread
        /\ UNCHANGED <<mvars, hvars, cvars, svars, rvars, lvars, uevent, transitions, calls,
                       env_steps>>

\* The thread is past the test of its loop: in poll, or about to check.
InLoop(thread) == IF thread = "netlink" THEN "netlink_poll"
                  ELSE IF thread = "polling" THEN "polling_check" ELSE thread

\* cleanup() calls stop_monitoring once run() is over: the flag is cleared.
\* The thread is at the test of its loop, or past it (inside).
StopMonitoring ==
    \E inside \in BOOLEAN :
        /\ start_calls = MaxStartCalls
        /\ running
        /\ running' = FALSE
        /\ monitor_thread' = IF inside THEN InLoop(monitor_thread) ELSE monitor_thread
        /\ UNCHANGED <<mvars, hvars, cvars, svars, rvars, lvars, current_source,
                       observers, start_calls, uevent, seen, transitions, calls, env_steps>>

\* _monitor_loop enters _monitor_netlink: the socket is bound, or the bind
\* fails and the exception leads to _monitor_polling.
MonitorLoop ==
    \E bound \in BOOLEAN :
        /\ monitor_thread = "started"
        /\ monitor_thread' = IF bound THEN "netlink" ELSE "polling"
        /\ daemon' = [daemon EXCEPT !.netlink = IF bound THEN "open" ELSE @]
        /\ UNCHANGED <<mvars, hvars, cvars, svars, rvars, uvars, running, current_source,
                       observers, start_calls, uevent, seen, transitions, calls, env_steps>>

\* The heartbeat check with its exception reaching _monitor_loop, which falls
\* back to polling.
NetlinkHeartbeat_falls_back ==
    \E raises, wok \in BOOLEAN :
        LET r == check_power_source(current_source, Mgr, raises, wok)
        IN  /\ (monitor_thread = "netlink" /\ running) \/ monitor_thread = "netlink_poll"
            /\ uevent = "none"
            /\ Checked(r)
            /\ monitor_thread' = IF r.raised THEN "polling" ELSE "netlink"
            /\ UNCHANGED <<hvars, cvars, svars, rvars, lvars, running, observers,
                           start_calls, uevent, env_steps>>

\* Netlink loop: poll times out with nothing to read; the heartbeat check.
\* An exception is caught by the loop's except.
NetlinkHeartbeat ==
    \E raises, wok \in BOOLEAN :
        /\ (monitor_thread = "netlink" /\ running) \/ monitor_thread = "netlink_poll"
        /\ uevent = "none"
        /\ Checked(check_power_source(current_source, Mgr, raises, wok))
        /\ monitor_thread' = "netlink"
        /\ UNCHANGED <<hvars, cvars, svars, rvars, lvars, running, observers,
                       start_calls, uevent, env_steps>>

\* Netlink loop: a datagram is read.  A power_supply event leads to
\* check_power_source, a platform_profile event to handle_hardware_event;
\* an exception is caught by the loop's except.
NetlinkWake ==
    \E raises, wok \in BOOLEAN :
        /\ (monitor_thread = "netlink" /\ running) \/ monitor_thread = "netlink_poll"
        /\ uevent # "none"
        /\ uevent' = "none"
        /\ IF uevent = "power_supply"
           THEN Checked(check_power_source(current_source, Mgr, raises, wok))
           ELSE /\ Commit(IF uevent = "platform_profile"
                          THEN handle_hardware_event(Mgr) ELSE Mgr)
                /\ UNCHANGED <<current_source, seen, transitions, calls>>
        /\ monitor_thread' = "netlink"
        /\ UNCHANGED <<hvars, cvars, svars, rvars, lvars, running, observers,
                       start_calls, env_steps>>

\* Polling loop: check_power_source, then a second of sleep.  Nothing
\* catches an exception: it ends _monitor_polling and the thread.
PollingCheck ==
    \E raises, wok \in BOOLEAN :
        LET r == check_power_source(current_source, Mgr, raises, wok)
        IN  /\ (monitor_thread = "polling" /\ running) \/ monitor_thread = "polling_check"
            /\ Checked(r)
            /\ monitor_thread' = IF r.raised THEN "crashed" ELSE "polling"
            /\ UNCHANGED <<hvars, cvars, svars, rvars, lvars, running, observers, start_calls,
                           uevent, env_steps>>

\* _monitor_netlink returning without closing its socket.
MonitorExit_socket_left ==
    /\ monitor_thread \in {"netlink", "polling"} /\ ~running
    /\ monitor_thread' = "ended"
    /\ UNCHANGED <<mvars, hvars, cvars, svars, rvars, lvars, running, current_source,
                   observers, start_calls, uevent, seen, transitions, calls, env_steps>>

\* Either loop finds running false and returns; _monitor_netlink closes its
\* socket.
MonitorExit ==
    /\ monitor_thread \in {"netlink", "polling"} /\ ~running
    /\ monitor_thread' = "ended"
    /\ daemon' = [daemon EXCEPT !.netlink = IF monitor_thread = "netlink" THEN "closed" ELSE @]
    /\ UNCHANGED <<mvars, hvars, cvars, svars, rvars, uvars, running, current_source,
                   observers, start_calls, uevent, seen, transitions, calls, env_steps>>

\* The datagram of a kernel event reaches the socket when it is empty.
Queue(kind) == IF uevent = "none" THEN kind ELSE uevent

\* The supply is plugged in or pulled; the kernel sends its event or not.
SupplyChange ==
    \E sent \in BOOLEAN :
        /\ env_steps < MaxEnvSteps
        /\ env_steps' = env_steps + 1
        /\ online' = [online EXCEPT ![1] = IF @ = "1" THEN "0" ELSE "1"]
        /\ uevent' = IF sent THEN Queue("power_supply") ELSE uevent
        /\ UNCHANGED <<platform_profile, platform_profile_choices, available_features,
                       last_known_profile, default_ac_profile, default_bat_profile, opt,
                       visuals, fan_speed, hvars, cvars, svars, rvars, lvars, running,
                       current_source, monitor_thread, observers, start_calls, seen,
                       transitions, calls>>

\* The profile key is pressed: the hardware moves to another choice and the
\* kernel sends a platform_profile event.
ProfileKey ==
    \E p \in Range(platform_profile_choices) :
        /\ env_steps < MaxEnvSteps
        /\ p # platform_profile
        /\ env_steps' = env_steps + 1
        /\ platform_profile' = p
        /\ uevent' = Queue("platform_profile")
        /\ UNCHANGED <<platform_profile_choices, online, available_features,
                       last_known_profile, default_ac_profile, default_bat_profile, opt,
                       visuals, fan_speed, hvars, cvars, svars, rvars, lvars, running,
                       current_source, monitor_thread, observers, start_calls, seen,
                       transitions, calls>>

\* Some other kernel object sends an event.
OtherUevent ==
    /\ env_steps < MaxEnvSteps
    /\ uevent = "none"
    /\ env_steps' = env_steps + 1
    /\ uevent' = "other"
    /\ UNCHANGED <<mvars, hvars, cvars, svars, rvars, lvars, running, current_source,
                   monitor_thread, observers, start_calls, seen, transitions, calls>>

NextMonitor ==
    \/ StartMonitoring
    \/ StopMonitoring
    \/ MonitorLoop
    \/ NetlinkHeartbeat
    \/ NetlinkWake
    \/ PollingCheck
    \/ MonitorExit
    \/ SupplyChange
    \/ ProfileKey
    \/ OtherUevent

\* The monitor is followed on one machine: the thermal feature with the
\* choices low-power and balanced, the stock defaults, and a supply file.
MonitorHardware ==
    /\ platform_profile_choices = <<"low-power", "balanced">>
    /\ "thermal_profile" \in available_features
    /\ default_ac_profile = "balanced" /\ default_bat_profile = "low-power"
    /\ online[1] # "absent"

InitMonitorSpec == Init /\ MonitorHardware

SpecMonitor == InitMonitorSpec /\ [][NextMonitor]_vars

(***************************************************************************)
(* Properties of the power monitor, checked under SpecMonitor.             *)
(***************************************************************************)

\* C18: handle_power_change has been called once for each observation that
\* differed from the one before it, never for the initial observation of
\* start_monitoring nor for a repeated one, and the second start_monitoring
\* has created no second thread.
C18_OncePerTransition ==
    /\ calls = transitions
    /\ observers <= 1
    /\ (running /\ monitor_thread # "crashed") => current_source = seen

C18_Witness == calls = 2 /\ start_calls = MaxStartCalls /\ observers = 1

\* C19: the monitor loop survives every error of an iteration: the thread is
\* never ended by an exception, and it has returned only when monitoring was
\* stopped.
C19_LoopSurvivesErrors ==
    /\ monitor_thread # "crashed"
    /\ monitor_thread = "ended" => ~running

\* The supply is not what the monitor last delivered, while monitoring runs.
Undelivered == running /\ Bool(_is_ac_connected(online)) # current_source

\* C20: a change of the power source that persists is eventually delivered
\* to handle_power_change.  In a finite run: whenever the supply is not what
\* was last delivered and monitoring has not been stopped, the monitor thread
\* is alive, about to enter or inside one of its two loops, so that its next
\* heartbeat, wake-up or poll observes the change.
C20_ChangeDelivered ==
    Undelivered => monitor_thread \in {"started", "netlink", "polling"}

\* The hardware profile is not the cached one while monitoring runs, and no
\* handle_power_change has touched either: a profile key was pressed and the
\* change is not reflected yet.
Unreflected ==
    /\ running /\ calls = 0
    /\ get_thermal_profile(available_features, platform_profile) # last_known_profile

\* C21: a change of the hardware profile made by the profile key is
\* eventually reflected in last_known_profile, under the netlink loop and
\* under the polling fallback.  In a finite run: whenever such a change is not
\* reflected yet, its kernel event waits for a monitor thread that is in, or
\* about to enter, a loop that calls handle_hardware_event.
C21_HotkeyReflected ==
    Unreflected =>
        /\ monitor_thread \in {"started", "netlink"}
        /\ uevent = "platform_profile"

\* The monitor thread exists and has not returned.
MonitorAlive ==
    monitor_thread \in {"started", "netlink", "polling", "netlink_poll", "polling_check"}

\* The monitor thread has returned, or was ended by an exception.
MonitorGone == monitor_thread \in {"ended", "crashed"}

\* A step of the monitor thread.
MonitorStep ==
    MonitorLoop \/ NetlinkHeartbeat \/ NetlinkWake \/ PollingCheck \/ MonitorExit

\* The steps a stopped monitor thread can still take before it has returned.
Remaining ==
    IF monitor_thread \in {"started", "netlink_poll", "polling_check"} THEN 2
    ELSE IF monitor_thread \in {"netlink", "polling"} THEN 1 ELSE 0

\* C29: after stop_monitoring the monitor loop exits: a stopped thread that
\* has not returned always has a step to take, and each of its steps brings
\* it nearer to its return, which follows its next wake-up or poll at the
\* latest.  Once it has returned the netlink socket is not open, and no
\* handle_power_change or handle_hardware_event is started any more.
C29_StopEndsMonitor ==
    /\ []((~running /\ MonitorAlive) => ENABLED MonitorStep)
    /\ [][(~running /\ MonitorAlive /\ monitor_thread' # monitor_thread)
               => Remaining' < Remaining]_vars
    /\ [](MonitorGone => daemon.netlink # "open")
    /\ [][MonitorGone => /\ monitor_thread' = monitor_thread
                          /\ calls' = calls
                          /\ last_known_profile' = last_known_profile]_vars

C29_Witness ==
    /\ monitor_thread = "ended" /\ daemon.netlink = "closed"
    /\ calls >= 1 /\ last_known_profile # "balanced"

\* The thread is in the netlink loop / in the polling loop.
Subscribed == monitor_thread \in {"netlink", "netlink_poll"}

Polling == monitor_thread \in {"polling", "polling_check"}

\* C32: the monitor polls exactly when its netlink socket could not be bound
\* at the start of the thread: either loop is entered from the start of the
\* thread only, the polling loop is left only by the end of the thread, never
\* for the netlink loop, and the netlink loop, whatever its iterations raise,
\* is left only by its return, never for the polling loop.
C32_FallbackAtStartOnly ==
    /\ [](Polling => daemon.netlink = "none")
    /\ [](Subscribed => daemon.netlink = "open")
    /\ [][Polling => (Polling' \/ monitor_thread' \in {"ended", "crashed"})]_vars
    /\ [][Subscribed => (Subscribed' \/ monitor_thread' = "ended")]_vars
    /\ [][((Polling' /\ ~Polling) \/ (Subscribed' /\ ~Subscribed))
             => monitor_thread = "started"]_vars

\* The thread polls, the socket was never bound, and two of its polls have
\* found the power source changed.
C32_Witness ==
    /\ monitor_thread = "polling" /\ running
    /\ daemon.netlink = "none"
    /\ calls = 2

(***************************************************************************)
(* Properties of the calls made from two threads, checked under            *)
(* SpecThreads.                                                            *)
(***************************************************************************)

\* No call is being handled.
Quiescent == \A t \in Threads : pc[t] \in {"idle", "done"}

\* The calls made were not forced and their writes did not fail.
PlainCalls == \A t \in Threads : loc[t].op = "none" \/ (~loc[t].force /\ loc[t].wok)

\* C22: once no call is being handled any more, the last
\* thermal_profile_changed event emitted carries the profile that is in the
\* hardware profile file, and last_known_profile is that profile (stated for
\* unforced calls whose writes succeed).
C22_Converged ==
    (Quiescent /\ PlainCalls /\ ProfileEvents(emitted) # <<>>) =>
        /\ ProfileEvents(emitted)[Len(ProfileEvents(emitted))].data = platform_profile
        /\ last_known_profile = platform_profile

(***************************************************************************)
(* sync_full_state, called by handle_client on the event loop when a       *)
(* client is accepted, statement by statement next to the monitor's        *)
(* handle_power_change.                                                    *)
(***************************************************************************)

\* The event loop enters sync_full_state: it reads the power state and the
\* hardware profile (the default of the power state when that is empty) and
\* calls set_thermal_profile(current_profile, force=True).
LoopSync ==
    \E wok \in BOOLEAN :
        LET is_ac == _is_ac_online(online)
            hw == get_thermal_profile(available_features, platform_profile)
            current_profile == IF hw = ""
                               THEN (IF is_ac THEN default_ac_profile
                                     ELSE default_bat_profile)
                               ELSE hw
        IN  /\ pc["loop"] = "idle"
            /\ loc' = [loc EXCEPT !["loop"] =
                         [ op |-> "sync_full_state",
                           arg |-> IF is_ac THEN "true" ELSE "false",
                           force |-> TRUE, wok |-> wok, profile |-> current_profile,
                           success |-> FALSE ]]
            /\ Goto("loop", "validate")
            /\ start' = IF Idle THEN Mgr ELSE start
            /\ UNCHANGED <<mvars, hvars, svars, evars, emitted>>

\* sync_full_state: set_thermal_profile has returned; the power_state_changed
\* event with the power state read at the beginning.
SyncNotify ==
    /\ pc["loop"] = "done" /\ loc["loop"].op = "sync_full_state"
    /\ emitted' = Append(emitted, PowerEvent(loc["loop"].arg = "true"))
    /\ Goto("loop", "synced")
    /\ UNCHANGED <<mvars, hvars, svars, evars, loc, start>>

NextSync ==
    \/ LoopSync
    \/ SyncNotify
    \/ MonitorCall
    \/ \E t \in Threads : Step(t)

SpecSync == Init /\ [][NextSync]_vars

\* The step in which sync_full_state's set_thermal_profile writes the
\* hardware profile file.
SyncWrites ==
    /\ loc["loop"].op = "sync_full_state"
    /\ pc["loop"] = "write_write" /\ pc'["loop"] = "side_effects"

\* C23: accepting a client never switches the thermal profile: whatever the
\* monitor does meanwhile, no step of the full sync changes the hardware
\* profile file when the hardware reported a profile.
C23_SyncKeepsProfile ==
    [][(SyncWrites /\ get_thermal_profile(available_features, platform_profile) # "")
          => platform_profile' = platform_profile]_vars
-----------------------------------------------------------------------------
(* Properties of the lines of several connections, checked under            *)
(* SpecFrames.                                                               *)

\* Client c has sent a line that is not a request.
SentMalformed(c) == \E n \in DOMAIN conn[c].sent : conn[c].sent[n].json # "object"

\* The handler of c takes a line that is not a request.
Skips(c) == Handles(c) /\ Head(conn[c].rdbuf).line.json # "object"

\* C27: a line that is not valid JSON, or not a JSON object, touches only
\* its own connection: handling it changes nothing in the manager, in the
\* broadcasts, in the other connections or in their membership of the live
\* set; and when the loop is at rest after such a line, every other client
\* that has connected is accepted, in the live set and has a response to
\* each of its requests.
C27_MalformedFrameContained ==
    /\ [][\A c \in ClientIds :
            Skips(c) =>
                /\ UNCHANGED <<mvars, tasks>>
                /\ conn'[c].out = conn[c].out
                /\ \A d \in ClientIds \ {c} :
                        /\ conn'[d] = conn[d]
                        /\ d \in clients => d \in clients']_vars
    /\ [](\A c \in ClientIds :
            (SentMalformed(c) /\ LoopIdle) =>
                \A d \in ClientIds \ {c} :
                    conn[d].st # "none" =>
                        /\ conn[d].st = "open" /\ d \in clients
                        /\ \A n \in WellFormed(d) : Answered(d, n))

\* Client 1 has sent a line that is no request and client 2 a request that
\* was answered.
C27_Witness ==
    /\ LoopIdle
    /\ conn[1].sent \in {<<InvalidJson>>, <<NotAnObject>>}
    /\ conn[1].out # <<>> /\ Responses(1) = <<>>
    /\ conn[2].sent = <<GetThermalProfile>> /\ Answered(2, 1)

-----------------------------------------------------------------------------
(* Shutdown.  A signal makes the loop run AcerSenseDaemon.shutdown(), which  *)
(* stops the server and cancels every other task; the cancelled main task    *)
(* leaves DaemonServer.start() and run() through their finally blocks.  The  *)
(* loop goes on until the cancelled tasks have ended.                        *)

\* The clients in the order of list(self.clients).
ClientSeq(S) == SelectSeq([k \in ClientIds |-> k], LAMBDA k : k \in S)

\* os.unlink leaving the file behind.
unlink_keeps(exists, uok) == exists

\* os.unlink in cleanup_socket and in cleanup: it removes the file, or fails
\* and the failure is logged or passed over.
unlink(exists, uok) == exists /\ ~uok

\* The files whose removal has failed, after one more attempt.
Failed(f, name, exists, uok) == IF exists /\ ~uok THEN f \cup {name} ELSE f

\* writer.close() on the transports of the clients in S: an open transport
\* stops reading and its connection_lost is scheduled.
ClosedWriters(cn, S) ==
    [c \in ClientIds |->
        IF c \in S /\ cn[c].st = "open"
        THEN [cn[c] EXCEPT !.st = "lost", !.reg = FALSE] ELSE cn[c]]

ConnectionsLost(cn, S) ==
    LET w == ClientSeq({c \in S : cn[c].st = "open"})
    IN  [k \in DOMAIN w |-> Callback("conn_lost", w[k], 0, NoEvent)]

\* The handles that server.close() and the closing transports cancel.
CancelHandles(q, cn, S) ==
    [k \in DOMAIN q |->
        IF q[k].cb = "accept" \/ (q[k].cb = "read_ready" /\ q[k].c \in S /\ cn[q[k].c].st = "open")
        THEN Callback("cancelled", 0, 0, NoEvent) ELSE q[k]]

\* The task of _accept_connection2 for client c has not had its first step.
AcceptQueued(q, c) == \E k \in DOMAIN q : q[k].cb = "accept2" /\ q[k].c = c

\* The task of _accept_connection2 for client c has made the transport and
\* has not returned: it returns after connection_made and the reader's
\* registration, before the first step of handle_client.
AcceptWaits(q, c) == \E k \in DOMAIN q : q[k].cb \in {"add_reader", "hc_start"} /\ q[k].c = c

\* task.cancel() on every task but shutdown()'s: a task that has not had
\* its first step never runs, a suspended one is woken with CancelledError.
CancelledConnections(cn, q) ==
    [c \in ClientIds |->
        IF AcceptQueued(q, c) THEN [cn[c] EXCEPT !.st = "closed"]
        ELSE IF cn[c].hpc \in {"start", "wait_read", "woken", "drain_wait", "drain_woken",
                               "drain_yield"}
        THEN [cn[c] EXCEPT !.hpc = "cancelled"]
        ELSE cn[c]]

CancelledTasks(tk) ==
    [k \in DOMAIN tk |->
        IF tk[k].st \in {"created", "drain_wait", "drain_yield", "woken"}
        THEN [tk[k] EXCEPT !.st = "cancelled"] ELSE tk[k]]

CancelledQueue(q) ==
    [k \in DOMAIN q |->
        IF q[k].cb = "accept2" THEN Callback("cancelled", 0, 0, NoEvent) ELSE q[k]]

\* The wake-ups task.cancel() schedules: those of the suspended handlers and
\* broadcasts, and those of the accepting tasks.
CancelWakeups(cn, tk, q) ==
    LET a == ClientSeq({c \in ClientIds : AcceptWaits(q, c)})
        h == ClientSeq({c \in ClientIds : cn[c].hpc \in {"wait_read", "drain_wait"}})
        b == SelectSeq([k \in DOMAIN tk |-> k], LAMBDA k : tk[k].st = "drain_wait")
    IN  [k \in DOMAIN a |-> Callback("accept_cancel", a[k], 0, NoEvent)]
        \o [k \in DOMAIN h |-> Callback("hc_wake", h[k], 0, NoEvent)]
        \o [k \in DOMAIN b |-> Callback("b_wake", 0, b[k], NoEvent)]

MainWake == <<Callback("main_wake", 0, 0, NoEvent)>>

UnchangedRest == UNCHANGED <<mvars, hvars, cvars, rvars, pvars, uvars>>

\* SIGTERM or SIGINT arrives: the loop's handle of the signal is queued.
Signal ==
    /\ daemon.phase = "serving"
    /\ daemon' = [daemon EXCEPT !.phase = "signalled"]
    /\ ready' = Append(ready, Callback("signal", 0, 0, NoEvent))
    /\ UNCHANGED <<clients, ntodo, current_task, tasks, conn, power_changes>>
    /\ UnchangedRest

\* The signal handler: asyncio.create_task(self.shutdown()).
RunSignal ==
    /\ Runs("signal")
    /\ ready' = Rest \o <<Callback("shutdown", 0, 0, NoEvent)>>
    /\ UNCHANGED <<clients, current_task, tasks, conn, power_changes>>
    /\ UnchangedManager

\* shutdown() up to its gather: DaemonServer.stop() clears the flag, closes
\* the server and the writers of the clients and removes the socket file;
\* then every other task is cancelled, the main task among them, in the
\* order of asyncio.all_tasks().
RunShutdown ==
    /\ Runs("shutdown")
    /\ \E uok, main_first \in BOOLEAN :
          LET cn == ClosedWriters(conn, clients)
              q == CancelHandles(Rest, conn, clients) \o ConnectionsLost(conn, clients)
              w == CancelWakeups(cn, tasks, q)
          IN  /\ daemon' = [daemon EXCEPT !.phase = "stopping", !.running = FALSE,
                                          !.listening = FALSE,
                                          !.socket_file = unlink(@, uok),
                                          !.failed = Failed(@, "socket", daemon.socket_file, uok)]
              /\ conn' = CancelledConnections(cn, q)
              /\ tasks' = CancelledTasks(tasks)
              /\ ready' = CancelledQueue(q)
                             \o (IF main_first THEN MainWake \o w ELSE w \o MainWake)
    /\ UNCHANGED <<clients, current_task, power_changes>>
    /\ UnchangedRest

\* The cancelled task of _accept_connection2: transport.close().
RunAcceptCancel ==
    /\ Runs("accept_cancel")
    /\ LET c == Head(ready).c
       IN  /\ conn' = ClosedWriters(conn, {c})
           /\ ready' = CancelHandles(Rest, conn, {c}) \o ConnectionsLost(conn, {c})
    /\ UNCHANGED <<clients, current_task, tasks, power_changes>>
    /\ UnchangedManager

\* The cancelled main task: start() leaves serve_forever and its finally
\* block cleans the socket file up; run()'s finally block calls cleanup(),
\* which stops the server again and removes the PID file.
RunMainWake ==
    /\ Runs("main_wake")
    /\ \E uok, pok \in BOOLEAN :
          daemon' = [daemon EXCEPT !.phase = "stopped", !.running = FALSE,
                                  !.listening = FALSE,
                                  !.socket_file = unlink(@, uok),
                                  !.pid_file = unlink(@, pok),
                                  !.failed = Failed(Failed(@, "socket", daemon.socket_file, uok),
                                                    "pid", daemon.pid_file, pok)]
    /\ conn' = ClosedWriters(conn, clients)
    /\ ready' = CancelHandles(Rest, conn, clients) \o ConnectionsLost(conn, clients)
    /\ UNCHANGED <<clients, current_task, tasks, power_changes>>
    /\ UnchangedRest

NextShutdown ==
    \/ \E c \in ClientIds : ClientConnect(c)
    \/ ClientStall(1)
    \/ ClientResume(1)
    \/ MonitorPowerChange
    \/ Signal
    \/ Select
    \/ RunCancelled
    \/ RunAccept
    \/ RunAccept2
    \/ RunConnectionMade
    \/ RunAddReader
    \/ RunWriteReady
    \/ RunConnectionLost
    \/ RunHandlerStart
    \/ RunHandlerWake
    \/ RunCreate
    \/ RunBroadcastStep
    \/ RunBroadcastWake
    \/ BroadcastNext
    \/ RunSignal
    \/ RunShutdown
    \/ RunAcceptCancel
    \/ RunMainWake

SpecShutdown == InitServerSpec /\ [][NextShutdown]_vars

-----------------------------------------------------------------------------
(* Properties of the shutdown, checked under SpecShutdown.                   *)

\* cleanup() has run and the loop has nothing left to run.
Completed == daemon.phase = "stopped" /\ ready = <<>> /\ current_task = 0

\* No connection is accepted once the server is closed, and nothing is
\* written to a client once the server is stopped.
QuietAfterStop ==
    \A c \in ClientIds :
        /\ (~daemon.listening /\ conn[c].st = "pending") => conn'[c].st = "pending"
        /\ ~daemon.running => Len(conn'[c].out) <= Len(conn[c].out)

\* Every session is closed and the live set is empty.
SessionsClosed ==
    /\ clients = {}
    /\ \A c \in ClientIds : conn[c].st \in {"none", "pending", "closed"}

-----------------------------------------------------------------------------
(* The power state over every assignment of the four candidate files: the   *)
(* files change one at a time, the monitor checks the power source and the  *)
(* server synchronises a client.                                            *)

\* Every assignment of the candidate "online" files.
AllOnline == [1 .. NumCandidates -> FileStates]

\* One candidate file appears, disappears or reads another value.
PowerFiles ==
    \E i \in 1 .. NumCandidates, f \in FileStates :
        /\ f # online[i]
        /\ env_steps < MaxEnvSteps
        /\ env_steps' = env_steps + 1
        /\ Commit([Mgr EXCEPT !.on = [online EXCEPT ![i] = f]])
        /\ last' = [NoCall EXCEPT !.op = "power_switch"]
        /\ prev' = Summary(last)
        /\ UNCHANGED <<cvars, svars, rvars, lvars, running, current_source, monitor_thread,
                       observers, start_calls, uevent, seen, transitions, calls>>

\* check_power_source, a whole call on the monitor thread.
CheckPowerSource ==
    \E wok \in BOOLEAN :
        /\ Checked(check_power_source(current_source, Mgr, FALSE, wok))
        /\ last' = [NoCall EXCEPT !.op = "check_power_source"]
        /\ prev' = Summary(last)
        /\ UNCHANGED <<cvars, svars, rvars, lvars, running, monitor_thread, observers,
                       start_calls, uevent, env_steps>>

NextPower ==
    \/ PowerFiles
    \/ CheckPowerSource
    \/ SyncFullState

\* One machine: two profile choices, the thermal feature, the stock defaults.
PowerHardware ==
    /\ platform_profile_choices = <<"low-power", "balanced">>
    /\ "thermal_profile" \in available_features
    /\ default_ac_profile = "balanced" /\ default_bat_profile = "low-power"

InitPower ==
    /\ InitMgrOver(AllOnline) /\ InitHist /\ InitThreads /\ InitServer /\ InitRecovery
    /\ InitMonitor /\ InitDaemon /\ InitUser
    /\ PowerHardware

SpecPower == InitPower /\ [][NextPower]_vars

(***************************************************************************)
(* Properties of the power state, checked under SpecPower.                 *)
(***************************************************************************)

\* The first existing candidate in list order reads "1".
FirstReadsOne(on) ==
    \E i \in 1 .. NumCandidates :
        on[i] = "1" /\ \A j \in 1 .. (i - 1) : on[j] = "absent"

\* C31: for every assignment of the four candidate files each derivation of
\* the power state (the monitor's, the reconciler's, the one of the
\* optimizations, the one of the initial profile) tells AC exactly when the
\* first existing candidate reads 1, and so do the results of the calls that
\* have just used them: the source the monitor has stored, the power event
\* and the optimization settings of a full sync.
C31_OnePowerState ==
    LET is_ac == FirstReadsOne(online)
    IN  /\ _is_ac_connected(online) = is_ac
        /\ _is_ac_online(online) = is_ac
        /\ DetectPowerSource(online) = is_ac
        /\ InitialIsAc(online) = is_ac
        /\ last.op = "check_power_source" => current_source = Bool(is_ac)
        /\ last.op = "sync_full_state" =>
              /\ PowerEvent(is_ac) \in Range(last.ev)
              /\ last.na > 0 => opt.wifi_power = (IF is_ac THEN "off" ELSE "on")

-----------------------------------------------------------------------------
(* The commands of a client on the manager, each a whole call on the event  *)
(* loop, among the power transitions, the full syncs and the profile key.   *)

\* What a client may pass as the source of a default profile.
Sources == {"ac", "bat", "usb"}

\* What a client may pass as a default profile.
Preferences == {"quiet"}

\* What a client may pass to set_thermal_profile.
CommandProfiles == {"performance"}

\* set_default_profile_preference(source, profile): the stored configuration
\* is read (rok), the preference is assigned in memory and in the
\* configuration read, which is then written back (wok); an exception of
\* either file operation is caught and gives False.
set_default_profile_preference(s, cfg, source, profile, rok, wok) ==
    IF ~rok \/ source \notin {"ac", "bat"}
    THEN [mgr |-> s, config |-> cfg, ret |-> FALSE]
    ELSE [mgr |-> IF source = "ac" THEN [s EXCEPT !.dac = profile]
                  ELSE [s EXCEPT !.dbat = profile],
          config |-> IF ~wok THEN cfg
                     ELSE IF source = "ac" THEN [cfg EXCEPT !.ac = profile]
                     ELSE [cfg EXCEPT !.bat = profile],
          ret |-> wok]

\* set_fan_speed(cpu, gpu) for the two calls the NOS commands make.
set_fan_speed(s, value, fok) ==
    IF "fan_speed" \notin s.af THEN s
    ELSE [s EXCEPT !.fan = _write_file(s.fan, value, fok).content]

\* The profiles cycle_profile goes through on AC and on battery.
CycleList(all_profiles, is_ac) ==
    SelectSeq(all_profiles,
              LAMBDA p : IF is_ac THEN p \in {"quiet", "balanced", "balanced-performance"}
                         ELSE p \in {"low-power", "balanced"})

\* profiles.index(current_profile), -1 on ValueError.
IndexOf(profiles, current_profile) ==
    IF current_profile \in Range(profiles)
    THEN (CHOOSE i \in DOMAIN profiles :
              profiles[i] = current_profile
              /\ \A j \in 1 .. (i - 1) : profiles[j] # current_profile) - 1
    ELSE -1

\* The response of cycle_profile.
CycleResponse(success, new_profile) ==
    [type |-> "response", success |-> success, new_profile |-> new_profile]

\* The cycle_profile command: the successor of last_known_profile in the list
\* of the power source, read like _apply_initial_profile reads it, is handed
\* to set_thermal_profile, whose result is not looked at.
cycle_profile(s, wok) ==
    LET current_profile == IF s.lkp # "" THEN s.lkp ELSE get_thermal_profile(s.af, s.pp)
        profiles == CycleList(get_thermal_profile_choices(s.af, s.ch), InitialIsAc(s.on))
    IN  IF current_profile = "" \/ profiles = <<>>
        THEN [mgr |-> s, response |-> CycleResponse(FALSE, "")]
        ELSE LET next_idx == (IndexOf(profiles, current_profile) + 1) % Len(profiles)
                 next_profile == profiles[next_idx + 1]
             IN  [mgr |-> set_thermal_profile(s, next_profile, FALSE, wok),
                  response |-> CycleResponse(TRUE, next_profile)]

\* best_profile of activate_nos.
BestProfile(s) ==
    LET available == get_thermal_profile_choices(s.af, s.ch)
    IN  IF _is_ac_online(s.on)
        THEN IF "performance" \in Range(available) THEN "performance"
             ELSE "balanced-performance"
        ELSE IF "balanced" \in Range(available) THEN "balanced"
             ELSE "balanced-performance"

\* activate_nos saving the profile after it has set the best one.
activate_nos_saves_late(s, n, rok, wok, fok) ==
    IF n.active THEN [mgr |-> s, nos |-> n, success |-> FALSE]
    ELSE LET r == set_thermal_profile(set_fan_speed(s, "100,100", fok), BestProfile(s),
                                      FALSE, wok)
         IN  [ mgr |-> r,
               nos |-> [n EXCEPT !.active = TRUE,
                                 !.previous = IF rok THEN get_thermal_profile(r.af, r.pp)
                                              ELSE ""],
               success |-> TRUE ]

\* The activate_nos command; rok says whether the read of the profile file
\* succeeds (_read_file returns "" when it does not).  The two
\* broadcast_event coroutines it creates are never awaited: they write
\* nothing.
activate_nos(s, n, rok, wok, fok) ==
    IF n.active THEN [mgr |-> s, nos |-> n, success |-> FALSE]
    ELSE [ mgr |-> set_thermal_profile(set_fan_speed(s, "100,100", fok), BestProfile(s),
                                       FALSE, wok),
           nos |-> [n EXCEPT !.active = TRUE,
                             !.previous = IF rok THEN get_thermal_profile(s.af, s.pp)
                                          ELSE ""],
           success |-> TRUE ]

\* The deactivate_nos command.
deactivate_nos(s, n, wok, fok) ==
    IF ~n.active THEN [mgr |-> s, nos |-> n, success |-> FALSE]
    ELSE [ mgr |-> set_fan_speed(IF n.previous # ""
                                 THEN set_thermal_profile(s, n.previous, FALSE, wok)
                                 ELSE s,
                                 "0,0", fok),
           nos |-> [n EXCEPT !.active = FALSE],
           success |-> TRUE ]

\* handle_hardware_event when _update_hyprland_visuals raises: the except of
\* handle_hardware_event logs; last_known_profile is assigned already.
handle_hardware_event_raise(s) ==
    LET current_profile == get_thermal_profile(s.af, s.pp)
    IN  IF current_profile # "" /\ current_profile # s.lkp
        THEN [s EXCEPT !.lkp = current_profile]
        ELSE s

\* The record of a call: its name and arguments, what it returned, whether a
\* file operation of it failed or a side effect of it raised.
CommandRecord(op, source, profile, ret, failed) ==
    [ op |-> op, source |-> source, profile |-> profile, ret |-> ret, failed |-> failed ]

\* The call is recorded; the server, the threads and the monitor stay.
Called(rec) ==
    /\ last' = rec
    /\ UNCHANGED <<prev, cvars, svars, rvars, pvars, daemon>>

\* A command set_default_profile_preference.
SetDefaultProfilePreference ==
    \E source \in Sources, profile \in Preferences, rok, wok \in BOOLEAN :
        LET r == set_default_profile_preference(Mgr, config, source, profile, rok, wok)
        IN  /\ Commit(r.mgr)
            /\ config' = r.config
            /\ Called(CommandRecord("set_default_profile_preference", source, profile,
                                    r.ret, ~rok \/ ~wok))
            /\ UNCHANGED nos

\* A command set_thermal_profile.
CommandSetThermalProfile ==
    \E profile \in CommandProfiles, wok \in BOOLEAN :
        LET r == process_command(Mgr, "set_thermal_profile", profile, wok)
        IN  /\ Commit(r.mgr)
            /\ Called(CommandRecord("set_thermal_profile", "", profile,
                                    r.response.success, ~wok))
            /\ UNCHANGED uvars

\* A command cycle_profile.
CycleProfile ==
    \E wok \in BOOLEAN :
        LET r == cycle_profile(Mgr, wok)
        IN  /\ Commit(r.mgr)
            /\ Called(CommandRecord("cycle_profile", "", r.response.new_profile,
                                    r.response.success, ~wok))
            /\ UNCHANGED uvars

\* A command activate_nos; before is the hardware profile as the command
\* arrives.
ActivateNos ==
    \E rok, wok, fok \in BOOLEAN :
        LET r == activate_nos(Mgr, nos, rok, wok, fok)
        IN  /\ Commit(r.mgr)
            /\ nos' = IF r.success THEN [r.nos EXCEPT !.before = platform_profile]
                      ELSE r.nos
            /\ Called(CommandRecord("activate_nos", "", platform_profile, r.success, ~wok))
            /\ UNCHANGED config

\* A command deactivate_nos; the record keeps the hardware profile as the
\* command arrives and whether its write of the profile fails.
DeactivateNos ==
    \E wok, fok \in BOOLEAN :
        LET r == deactivate_nos(Mgr, nos, wok, fok)
        IN  /\ Commit(r.mgr)
            /\ nos' = r.nos
            /\ Called(CommandRecord("deactivate_nos", "", platform_profile, r.success, ~wok))
            /\ UNCHANGED config

\* The power source changes and the monitor calls handle_power_change.
PowerTransition ==
    \E on \in OnlineConfigs, wok \in BOOLEAN :
        /\ _is_ac_connected(on) # _is_ac_connected(online)
        /\ LET r == handle_power_change([Mgr EXCEPT !.on = on], _is_ac_connected(on), wok)
           IN  /\ Commit(r)
               /\ Called(CommandRecord("handle_power_change", "", "", r.ret, ~wok))
        /\ UNCHANGED uvars

\* A client connects: sync_full_state.
ClientSync ==
    \E wok \in BOOLEAN :
        LET r == sync_full_state(Mgr, wok)
        IN  /\ Commit(r)
            /\ Called(CommandRecord("sync_full_state", "", "", r.ret, ~wok))
            /\ UNCHANGED uvars

\* The profile key is pressed: the hardware moves to another of its choices.
KeyPressed ==
    \E p \in Range(platform_profile_choices) :
        /\ p # platform_profile
        /\ Commit([Mgr EXCEPT !.pp = p])
        /\ Called(CommandRecord("hotkey", "", p, TRUE, FALSE))
        /\ UNCHANGED uvars

\* The monitor calls handle_hardware_event: the read of the profile file may
\* fail (_read_file then returns ""), and the visuals update may raise.
HardwareEvent ==
    \E raises, rok \in BOOLEAN :
        LET m0 == IF rok THEN Mgr ELSE [Mgr EXCEPT !.pp = ""]
            r == IF raises THEN handle_hardware_event_raise(m0)
                 ELSE handle_hardware_event(m0)
        IN  /\ Commit([r EXCEPT !.pp = platform_profile])
            /\ Called([ op |-> "handle_hardware_event", failed |-> raises,
                        read |-> get_thermal_profile(m0.af, m0.pp),
                        ev |-> r.ev, wr |-> r.wr ])
            /\ UNCHANGED uvars

NextCommands ==
    \/ SetDefaultProfilePreference
    \/ CommandSetThermalProfile
    \/ CycleProfile
    \/ PowerTransition
    \/ ClientSync
    \/ KeyPressed
    \/ HardwareEvent

\* One machine: three profile choices, both features, the stock defaults, a
\* supply that is there.
CommandHardware ==
    /\ platform_profile_choices = <<"quiet", "balanced", "performance">>
    /\ available_features = {"thermal_profile", "fan_speed"}
    /\ default_ac_profile = "balanced" /\ default_bat_profile = "low-power"
    /\ online[1] # "absent"

InitCommands == Init /\ CommandHardware

SpecCommands == InitCommands /\ [][NextCommands]_vars

\* NOS mode: its two commands, and what can happen while it is active.
NextNos ==
    \/ ActivateNos
    \/ DeactivateNos
    \/ CommandSetThermalProfile
    \/ PowerTransition
    \/ KeyPressed

SpecNos == InitCommands /\ [][NextNos]_vars

(***************************************************************************)
(* Properties of the commands, checked under SpecCommands.                 *)
(***************************************************************************)

\* The step is a call of set_default_profile_preference.
PreferenceCall == last'.op = "set_default_profile_preference"

DefaultsUnchanged ==
    /\ default_ac_profile' = default_ac_profile
    /\ default_bat_profile' = default_bat_profile

\* The default profiles and the stored configuration change only in a call
\* of set_default_profile_preference, and a call with a source other than
\* "ac" or "bat" returns False and changes neither.
DefaultsOnlyByPreference ==
    [][ /\ ~PreferenceCall => (DefaultsUnchanged /\ config' = config)
        /\ (PreferenceCall /\ last'.source \notin {"ac", "bat"})
              => (~last'.ret /\ DefaultsUnchanged /\ config' = config) ]_vars

\* C34: the default profiles change only in a call of
\* set_default_profile_preference; a call with a source other than "ac" or
\* "bat" returns False and changes neither the defaults in memory nor the
\* stored configuration; a call whose file operation fails leaves the
\* defaults in memory unchanged.
C34_DefaultsFrame ==
    /\ DefaultsOnlyByPreference
    /\ [][(PreferenceCall /\ last'.failed) => DefaultsUnchanged]_vars

\* The step is a call of handle_hardware_event.
HardwareEventCall == last'.op = "handle_hardware_event"

\* The profile the call read differs from last_known_profile.
ReadDiffers == last'.read # "" /\ last'.read # last_known_profile

\* The call emitted nothing, wrote nothing and kept last_known_profile.
NothingDone ==
    /\ last'.ev = <<>> /\ last'.wr = 0
    /\ last_known_profile' = last_known_profile
    /\ platform_profile' = platform_profile
    /\ opt' = opt /\ visuals' = visuals /\ fan_speed' = fan_speed

CycleCall == last'.op = "cycle_profile"

\* The profiles of the current power source, and the cyclic successor of
\* last_known_profile among them: the first when it is not one of them.
CycleProfiles == CycleList(platform_profile_choices, _is_ac_online(online))

CycleSuccessor ==
    IF last_known_profile \in Range(CycleProfiles)
    THEN CycleProfiles[((IndexOf(CycleProfiles, last_known_profile) + 1)
                           % Len(CycleProfiles)) + 1]
    ELSE CycleProfiles[1]

\* C40: cycle_profile moves to the cyclic successor of last_known_profile in
\* the list of the current power source, and whenever its response reports
\* success with new_profile = Q, the hardware profile and
\* last_known_profile are Q after the command.
C40_CycleReportsTruth ==
    [][(CycleCall /\ last'.ret) =>
          /\ last'.profile = CycleSuccessor
          /\ platform_profile' = last'.profile
          /\ last_known_profile' = last'.profile]_vars

(***************************************************************************)
(* Properties of NOS mode, checked under SpecNos.                          *)
(***************************************************************************)

ActivateCall == last'.op = "activate_nos"

DeactivateCall == last'.op = "deactivate_nos"

\* The command was refused and changed nothing.
NosRefused ==
    /\ ~last'.ret
    /\ nos' = nos
    /\ platform_profile' = platform_profile
    /\ fan_speed' = fan_speed

\* The refusals: activate_nos while NOS is active and deactivate_nos while
\* it is not.
NosRefusals ==
    /\ (ActivateCall /\ nos.active) => NosRefused
    /\ (DeactivateCall /\ ~nos.active) => NosRefused

====
